---------------------------- MODULE Spec2Model ----------------------------
(***************************************************************************)
(* A model of pdf-merger-pro's core: the page-range parser, which the     *)
(* repository holds three times (pdf_merger.py, pdf_splitter.py,          *)
(* pdf_modifier.py), and the operations that consume it.                  *)
(*                                                                         *)
(* A Python str is a sequence of one-character strings, so that strip,    *)
(* lower, split and int are computed character by character as CPython    *)
(* computes them.  A PDF document is the sequence of its page handles; a  *)
(* page handle is <<document, zero-based index>>.                         *)
(***************************************************************************)
EXTENDS Integers, Sequences, FiniteSets, TLC

VARIABLES
    pc,                 \* "ready" before the call of a behaviour, "done" after it
    op,                 \* the operation called
    args,               \* its arguments
    range_str,          \* parse_page_range's argument range_str
    total_pages,        \* parse_page_range's argument total_pages
    result,             \* what the call returned or raised
    fs,                 \* the files that exist: path -> [kind, pages]
    dirs,               \* the directories that exist
    writer,             \* PDFMerger.writer
    progress_callback,  \* whether a progress callback is registered
    callback_raises,    \* the messages at which the registered callback raises
    trace,              \* what the call did, in order: files validated, opened and
                        \* written, directories made, progress events delivered
    gui                 \* the state of a GUI application: its lists, buttons,
                        \* worker threads and scheduled callbacks

vars == <<pc, op, args, range_str, total_pages, result, fs, dirs, writer,
          progress_callback, callback_raises, trace, gui>>

envVars == <<args, fs, dirs, writer, progress_callback, callback_raises, trace, gui>>

(***************************************************************************)
(* Bounds of the model.                                                    *)
(***************************************************************************)
\* Longest expression drawn freely over Alphabet.
MaxLen == 4
\* Largest page count of a document handed to the parsers.
MaxPages == 2
\* Most terms of an expression rendered from a term list.
MaxTerms == 2
\* Most blanks on either side of an 'all'-like word.
MaxPad == 1
\* Most input files of one merge call.
MaxFiles == 3
\* Largest page count of a document handed to the splitter.
MaxDocPages == 12
\* Most expressions of one split_by_ranges call.
MaxRanges == 2

(***************************************************************************)
(* Python's str and int, on sequences of one-character strings.           *)
(***************************************************************************)
Digits == <<"0", "1", "2", "3", "4", "5", "6", "7", "8", "9">>

IsDigit(c) == \E d \in DOMAIN Digits : Digits[d] = c

DigitVal(c) == (CHOOSE d \in DOMAIN Digits : Digits[d] = c) - 1

\* str.isspace for one character (the characters the model's inputs hold).
IsSpace(c) == c = " "

RECURSIVE py_lstrip(_)
py_lstrip(s) ==
    IF s # <<>> /\ IsSpace(Head(s)) THEN py_lstrip(Tail(s)) ELSE s

RECURSIVE py_rstrip(_)
py_rstrip(s) ==
    IF s # <<>> /\ IsSpace(s[Len(s)])
    THEN py_rstrip(SubSeq(s, 1, Len(s) - 1))
    ELSE s

\* str.strip(): leading and trailing whitespace removed.
py_strip(s) == py_rstrip(py_lstrip(s))

LowerChar(c) ==
    CASE c = "A" -> "a"
      [] c = "L" -> "l"
      [] c = "X" -> "x"
      [] OTHER -> c

\* str.lower()
py_lower(s) == [i \in DOMAIN s |-> LowerChar(s[i])]

\* `c in s`
py_in(c, s) == \E i \in DOMAIN s : s[i] = c

\* str.split(sep) for a one-character sep: every sep splits, so a string
\* with k separators yields k+1 pieces, empty ones included.
RECURSIVE py_split(_, _)
py_split(s, sep) ==
    IF ~py_in(sep, s) THEN <<s>>
    ELSE LET k == CHOOSE i \in DOMAIN s :
                     s[i] = sep /\ \A j \in 1..(i - 1) : s[j] # sep
         IN <<SubSeq(s, 1, k - 1)>> \o py_split(SubSeq(s, k + 1, Len(s)), sep)

\* str.replace(old, new) for one-character old and new.
py_replace(s, old, new) == [i \in DOMAIN s |-> IF s[i] = old THEN new ELSE s[i]]

\* The digits of an int literal's body: digits, with single underscores
\* allowed between two digits.
IsIntBody(b) ==
    /\ b # <<>>
    /\ IsDigit(b[1])
    /\ IsDigit(b[Len(b)])
    /\ \A i \in DOMAIN b : IsDigit(b[i]) \/ b[i] = "_"
    /\ \A i \in 1..(Len(b) - 1) : ~(b[i] = "_" /\ b[i + 1] = "_")

RECURSIVE DecimalValue(_)
DecimalValue(b) ==
    IF b = <<>> THEN 0
    ELSE LET c == b[Len(b)]
             r == DecimalValue(SubSeq(b, 1, Len(b) - 1))
         IN IF c = "_" THEN r ELSE 10 * r + DigitVal(c)

\* int(s): surrounding whitespace ignored, an optional sign, then the body;
\* anything else raises ValueError (ok = FALSE).
py_int(s) ==
    LET t    == py_strip(s)
        sgn  == t # <<>> /\ t[1] \in {"+", "-"}
        body == IF sgn THEN Tail(t) ELSE t
    IN IF IsIntBody(body)
       THEN [ok |-> TRUE,
             val |-> IF sgn /\ t[1] = "-" THEN 0 - DecimalValue(body)
                     ELSE DecimalValue(body)]
       ELSE [ok |-> FALSE, val |-> 0]

\* list(range(a, b))
py_range(a, b) == [i \in 1..(IF b > a THEN b - a ELSE 0) |-> a + i - 1]

\* The elements of a list, as a set: set(pages)
py_set(l) == {l[i] : i \in DOMAIN l}

\* sorted(S) of a set of integers: ascending.
RECURSIVE py_sorted(_)
py_sorted(S) ==
    IF S = {} THEN <<>>
    ELSE LET m == CHOOSE x \in S : \A y \in S : x <= y
         IN <<m>> \o py_sorted(S \ {m})

\* str(n) of an int: its decimal digits.
RECURSIVE py_str_nat(_)
py_str_nat(n) ==
    IF n < 10 THEN <<Digits[n + 1]>>
    ELSE py_str_nat(n \div 10) \o <<Digits[(n % 10) + 1]>>

py_str(n) == IF n < 0 THEN <<"-">> \o py_str_nat(0 - n) ELSE py_str_nat(n)

\* Concatenation of a list of lists.
RECURSIVE Flatten(_)
Flatten(ll) == IF ll = <<>> THEN <<>> ELSE Head(ll) \o Flatten(Tail(ll))

(***************************************************************************)
(* Outcomes of a call: a returned value, or a raised exception with its   *)
(* message (the fixed text, and the f-string's argument).                 *)
(***************************************************************************)
Returned(v) == [ok |-> TRUE, value |-> v, msg |-> "", arg |-> <<>>, cls |-> ""]

Raised(cls, msg, arg) ==
    [ok |-> FALSE, value |-> <<>>, msg |-> msg, arg |-> arg, cls |-> cls]

\* The exception classes of the three modules.
PDFMergerError(msg, arg) == Raised("PDFMergerError", msg, arg)

PDFSplitterError(msg, arg) == Raised("PDFSplitterError", msg, arg)

PDFModifierError(msg, arg) == Raised("PDFModifierError", msg, arg)

\* No GUI application is running.
NoGui == [app |-> "none"]

NoResult ==
    [ok |-> FALSE, value |-> <<>>, msg |-> "not called", arg |-> <<>>, cls |-> ""]

\* PDFMerger.__init__: self.writer = None
NoWriter == [created |-> FALSE, pages |-> <<>>]

FormatMsg == "Invalid page range format"
RangeMsg == "Invalid page range"
PageMsg == "Invalid page number"

\* A variant of the `all` test that compares without lower-casing.
IsAllExpr_CaseSensitive(s) == s = <<>> \/ py_strip(s) = <<"a", "l", "l">>

\* The `all` shortcut shared by the three parsers.
IsAllExpr(s) == s = <<>> \/ py_lower(py_strip(s)) = <<"a", "l", "l">>

\* A variant that returns the pages in term order, repetitions kept.
FirstFailureOrPages_Unsorted(outs) ==
    IF \E i \in DOMAIN outs : ~outs[i].ok
    THEN outs[CHOOSE i \in DOMAIN outs :
                  ~outs[i].ok /\ \A j \in 1..(i - 1) : outs[j].ok]
    ELSE Returned(Flatten([i \in DOMAIN outs |-> outs[i].value]))

\* The first failure among the per-term outcomes, in term order (the loop
\* stops at the first exception); all terms passing, the sorted set of pages.
FirstFailureOrPages(outs) ==
    IF \E i \in DOMAIN outs : ~outs[i].ok
    THEN outs[CHOOSE i \in DOMAIN outs :
                  ~outs[i].ok /\ \A j \in 1..(i - 1) : outs[j].ok]
    ELSE Returned(py_sorted(py_set(Flatten([i \in DOMAIN outs |-> outs[i].value]))))

(***************************************************************************)
(* PDFMerger.parse_page_range: no bounds checks.                           *)
(***************************************************************************)
PDFMerger_parse_part(raw, range_str_, total_pages_) ==
    LET part == py_strip(raw)
    IN IF py_in("-", part)
       THEN LET pieces == py_split(part, "-")
            IN IF Len(pieces) # 2 THEN PDFMergerError(FormatMsg, range_str_)
               ELSE LET s == py_int(py_strip(pieces[1]))
                        e == py_int(py_strip(pieces[2]))
                    IN IF ~s.ok \/ ~e.ok THEN PDFMergerError(FormatMsg, range_str_)
                       ELSE Returned(py_range(s.val - 1, (e.val - 1) + 1))
       ELSE LET p == py_int(py_strip(part))
            IN IF ~p.ok THEN PDFMergerError(FormatMsg, range_str_)
               ELSE Returned(<<p.val - 1>>)

PDFMerger_parse_page_range(range_str_, total_pages_) ==
    IF IsAllExpr(range_str_) THEN Returned(py_range(0, total_pages_))
    ELSE LET parts == py_split(range_str_, ",")
         IN FirstFailureOrPages(
                [i \in DOMAIN parts |->
                    PDFMerger_parse_part(parts[i], range_str_, total_pages_)])

(***************************************************************************)
(* PDFSplitter.parse_page_range: bounds checked per term.                  *)
(***************************************************************************)
\* A variant of the range check that lets an inverted range through.
PDFSplitter_range_rejected_NoInversion(start, end, total_pages_) ==
    start < 0 \/ end >= total_pages_

PDFSplitter_range_rejected(start, end, total_pages_) ==
    start < 0 \/ end >= total_pages_ \/ start > end

PDFSplitter_page_rejected(page, total_pages_) ==
    page < 0 \/ page >= total_pages_

PDFSplitter_parse_part(raw, range_str_, total_pages_) ==
    LET part == py_strip(raw)
    IN IF py_in("-", part)
       THEN LET pieces == py_split(part, "-")
            IN IF Len(pieces) # 2 THEN PDFSplitterError(FormatMsg, range_str_)
               ELSE LET s == py_int(py_strip(pieces[1]))
                        e == py_int(py_strip(pieces[2]))
                    IN IF ~s.ok \/ ~e.ok THEN PDFSplitterError(FormatMsg, range_str_)
                       ELSE IF PDFSplitter_range_rejected(s.val - 1, e.val - 1,
                                                          total_pages_)
                       THEN PDFSplitterError(RangeMsg, part)
                       ELSE Returned(py_range(s.val - 1, (e.val - 1) + 1))
       ELSE LET p == py_int(py_strip(part))
            IN IF ~p.ok THEN PDFSplitterError(FormatMsg, range_str_)
               ELSE IF PDFSplitter_page_rejected(p.val - 1, total_pages_)
               THEN PDFSplitterError(PageMsg, py_str(p.val))
               ELSE Returned(<<p.val - 1>>)

\* A variant that skips the empty terms instead of parsing them.
PDFSplitter_parse_page_range_SkipEmpty(range_str_, total_pages_) ==
    IF IsAllExpr(range_str_) THEN Returned(py_range(0, total_pages_))
    ELSE LET parts == SelectSeq(py_split(range_str_, ","),
                                LAMBDA t : py_strip(t) # <<>>)
         IN FirstFailureOrPages(
                [i \in DOMAIN parts |->
                    PDFSplitter_parse_part(parts[i], range_str_, total_pages_)])

PDFSplitter_parse_page_range(range_str_, total_pages_) ==
    IF IsAllExpr(range_str_) THEN Returned(py_range(0, total_pages_))
    ELSE LET parts == py_split(range_str_, ",")
         IN FirstFailureOrPages(
                [i \in DOMAIN parts |->
                    PDFSplitter_parse_part(parts[i], range_str_, total_pages_)])

(***************************************************************************)
(* PDFModifier.parse_page_range: bounds checked per term.                  *)
(***************************************************************************)
PDFModifier_range_rejected(start, end, total_pages_) ==
    start < 0 \/ end >= total_pages_ \/ start > end

PDFModifier_page_rejected(page, total_pages_) ==
    page < 0 \/ page >= total_pages_

PDFModifier_parse_part(raw, range_str_, total_pages_) ==
    LET part == py_strip(raw)
    IN IF py_in("-", part)
       THEN LET pieces == py_split(part, "-")
            IN IF Len(pieces) # 2 THEN PDFModifierError(FormatMsg, range_str_)
               ELSE LET s == py_int(py_strip(pieces[1]))
                        e == py_int(py_strip(pieces[2]))
                    IN IF ~s.ok \/ ~e.ok THEN PDFModifierError(FormatMsg, range_str_)
                       ELSE IF PDFModifier_range_rejected(s.val - 1, e.val - 1,
                                                          total_pages_)
                       THEN PDFModifierError(RangeMsg, part)
                       ELSE Returned(py_range(s.val - 1, (e.val - 1) + 1))
       ELSE LET p == py_int(py_strip(part))
            IN IF ~p.ok THEN PDFModifierError(FormatMsg, range_str_)
               ELSE IF PDFModifier_page_rejected(p.val - 1, total_pages_)
               THEN PDFModifierError(PageMsg, py_str(p.val))
               ELSE Returned(<<p.val - 1>>)

PDFModifier_parse_page_range(range_str_, total_pages_) ==
    IF IsAllExpr(range_str_) THEN Returned(py_range(0, total_pages_))
    ELSE LET parts == py_split(range_str_, ",")
         IN FirstFailureOrPages(
                [i \in DOMAIN parts |->
                    PDFModifier_parse_part(parts[i], range_str_, total_pages_)])

(***************************************************************************)
(* The expressions handed to the parsers.                                  *)
(***************************************************************************)
Alphabet == {"0", "1", "2", ",", "-", " ", "x"}

\* Every string over Alphabet of at most MaxLen characters.
FreeExprs == UNION {[1..n -> Alphabet] : n \in 0..MaxLen}

Blanks(n) == [i \in 1..n |-> " "]

\* 'all' in every letter case and its near misses, blank-padded.
AllLikeExprs ==
    {Blanks(i) \o w \o Blanks(j) :
        w \in UNION {[1..n -> {"a", "A", "l", "L"}] : n \in 2..3},
        i \in 0..MaxPad, j \in 0..MaxPad}

\* A term is <<p>> (a single page) or <<a, b>> (a pair), written as the
\* range mini-language writes it: "p" or "a-b", terms joined by commas.
TermNumbers == 0..(MaxPages + 1)

Terms == {<<p>> : p \in TermNumbers} \cup (TermNumbers \X TermNumbers)

RenderTerm(t) ==
    IF Len(t) = 1 THEN py_str(t[1])
    ELSE py_str(t[1]) \o <<"-">> \o py_str(t[2])

RECURSIVE RenderTerms(_)
RenderTerms(tl) ==
    IF Len(tl) = 1 THEN RenderTerm(tl[1])
    ELSE RenderTerm(tl[1]) \o <<",">> \o RenderTerms(Tail(tl))

RenderedExprs ==
    {RenderTerms(tl) : tl \in UNION {[1..n -> Terms] : n \in 1..MaxTerms}}

Exprs == FreeExprs \cup AllLikeExprs \cup RenderedExprs

(***************************************************************************)
(* The parsers on their own: one call of one parser per behaviour.         *)
(***************************************************************************)
InitParse ==
    /\ pc = "ready"
    /\ op = "none"
    /\ range_str \in Exprs
    /\ total_pages \in 0..MaxPages
    /\ result = NoResult
    /\ args = <<>>
    /\ fs = <<>>
    /\ dirs = {}
    /\ writer = NoWriter
    /\ progress_callback = FALSE
    /\ callback_raises = {}
    /\ trace = <<>>
    /\ gui = NoGui

MergerParse ==
    /\ pc = "ready"
    /\ pc' = "done"
    /\ op' = "PDFMerger.parse_page_range"
    /\ result' = PDFMerger_parse_page_range(range_str, total_pages)
    /\ UNCHANGED <<range_str, total_pages>>
    /\ UNCHANGED envVars

SplitterParse ==
    /\ pc = "ready"
    /\ pc' = "done"
    /\ op' = "PDFSplitter.parse_page_range"
    /\ result' = PDFSplitter_parse_page_range(range_str, total_pages)
    /\ UNCHANGED <<range_str, total_pages>>
    /\ UNCHANGED envVars

ModifierParse ==
    /\ pc = "ready"
    /\ pc' = "done"
    /\ op' = "PDFModifier.parse_page_range"
    /\ result' = PDFModifier_parse_page_range(range_str, total_pages)
    /\ UNCHANGED <<range_str, total_pages>>
    /\ UNCHANGED envVars

NextParse == MergerParse \/ SplitterParse \/ ModifierParse

SpecParse == InitParse /\ [][NextParse]_vars

ParseOps == {"PDFMerger.parse_page_range", "PDFSplitter.parse_page_range",
             "PDFModifier.parse_page_range"}

StrictParseOps == {"PDFSplitter.parse_page_range", "PDFModifier.parse_page_range"}

Parsed == pc = "done" /\ op \in ParseOps

(***************************************************************************)
(* The range mini-language, read off an expression without parsing it:    *)
(* the terms are the comma-separated pieces, trimmed; a numeral is an     *)
(* unsigned integer literal (digits, which Python lets a single           *)
(* underscore group); a pair is two numerals around one dash, blanks      *)
(* around the dash ignored.                                               *)
(***************************************************************************)
TermsOf(s) == LET parts == py_split(s, ",") IN [i \in DOMAIN parts |-> py_strip(parts[i])]

IsNumeral(t) == IsIntBody(t)

DashCount(t) == Cardinality({i \in DOMAIN t : t[i] = "-"})

DashAt(t) == CHOOSE i \in DOMAIN t : t[i] = "-"

PairLeft(t) == py_strip(SubSeq(t, 1, DashAt(t) - 1))

PairRight(t) == py_strip(SubSeq(t, DashAt(t) + 1, Len(t)))

IsSingleTerm(t) == IsNumeral(t)

IsPairTerm(t) == DashCount(t) = 1 /\ IsNumeral(PairLeft(t)) /\ IsNumeral(PairRight(t))

\* The 1-based pages a term names.
TermPages(t) ==
    IF IsSingleTerm(t) THEN {DecimalValue(t)}
    ELSE IF IsPairTerm(t)
    THEN DecimalValue(PairLeft(t))..DecimalValue(PairRight(t))
    ELSE {}

\* A term within [1, n] and, if a pair, not inverted.
TermInBounds(t, n) ==
    \/ IsSingleTerm(t) /\ DecimalValue(t) \in 1..n
    \/ /\ IsPairTerm(t)
       /\ DecimalValue(PairLeft(t)) \in 1..n
       /\ DecimalValue(PairRight(t)) \in 1..n
       /\ DecimalValue(PairLeft(t)) <= DecimalValue(PairRight(t))

\* A term that names a page below 1 or above n, or an inverted pair.
TermOutOfBounds(t, n) == (IsSingleTerm(t) \/ IsPairTerm(t)) /\ ~TermInBounds(t, n)

\* A term that is neither a numeral nor a pair of numerals.
TermMalformed(t) == ~IsSingleTerm(t) /\ ~IsPairTerm(t)

WellFormedInBounds(s, n) ==
    /\ ~IsAllExpr(s)
    /\ \A i \in DOMAIN TermsOf(s) : TermInBounds(TermsOf(s)[i], n)

NamedIndices(s) ==
    {p - 1 : p \in UNION {TermPages(TermsOf(s)[i]) : i \in DOMAIN TermsOf(s)}}

StrictlyAscending(l) == \A i \in 1..(Len(l) - 1) : l[i] < l[i + 1]

\* C2: for a well-formed expression whose terms are all within
\* [1, total_pages] and not inverted, each of the three parsers returns the
\* strictly ascending list of exactly the zero-based indices the terms name
\* (so the three return the same list).
C2_WellFormedParse ==
    (Parsed /\ WellFormedInBounds(range_str, total_pages))
        => /\ result.ok
           /\ StrictlyAscending(result.value)
           /\ py_set(result.value) = NamedIndices(range_str)

\* A pair overlapping a single page, out of order: dedup and sort both act.
C2_Witness ==
    /\ Parsed
    /\ WellFormedInBounds(range_str, total_pages)
    /\ Len(TermsOf(range_str)) = 2
    /\ IsSingleTerm(TermsOf(range_str)[2])
    /\ IsPairTerm(TermsOf(range_str)[1])
    /\ result.value = <<0, 1>>

\* C3: in PDFSplitter and PDFModifier, an expression with a term naming a
\* page < 1 or > total_pages, or an inverted pair, raises the module's error
\* and returns no list; every returned list lies within [0, total_pages).
C3_StrictBounds ==
    (pc = "done" /\ op \in StrictParseOps)
        => /\ (\E i \in DOMAIN TermsOf(range_str) :
                   TermOutOfBounds(TermsOf(range_str)[i], total_pages))
                => (~result.ok /\ result.msg \in {FormatMsg, RangeMsg, PageMsg})
           /\ result.ok
                => \A i \in DOMAIN result.value :
                       result.value[i] \in 0..(total_pages - 1)

\* An inverted pair of in-range pages, rejected.
C3_Witness ==
    /\ pc = "done"
    /\ op \in StrictParseOps
    /\ Len(TermsOf(range_str)) = 1
    /\ IsPairTerm(range_str)
    /\ DecimalValue(PairLeft(range_str)) \in 1..total_pages
    /\ DecimalValue(PairRight(range_str)) \in 1..total_pages
    /\ DecimalValue(PairLeft(range_str)) > DecimalValue(PairRight(range_str))
    /\ ~result.ok
    /\ result.msg = RangeMsg

HasMalformedTerm(s) ==
    ~IsAllExpr(s) /\ \E i \in DOMAIN TermsOf(s) : TermMalformed(TermsOf(s)[i])

FirstMalformed(s) ==
    CHOOSE i \in DOMAIN TermsOf(s) :
        TermMalformed(TermsOf(s)[i]) /\ \A j \in 1..(i - 1) : ~TermMalformed(TermsOf(s)[j])

\* C4 as stated: in all three parsers an expression (not empty/'all') with a
\* malformed term fails with 'Invalid page range format' naming the whole
\* expression.
C4_AlwaysFormatError ==
    (Parsed /\ HasMalformedTerm(range_str))
        => (~result.ok /\ result.msg = FormatMsg /\ result.arg = range_str)

\* C4 amended: such an expression never returns a list.  PDFMerger always
\* raises 'Invalid page range format' naming the whole expression;
\* PDFSplitter and PDFModifier raise it unless a term before the first
\* malformed one is out of bounds or inverted, and then raise that term's
\* bounds error instead.
C4_MalformedFails ==
    (Parsed /\ HasMalformedTerm(range_str))
        => LET earlier ==
                   \E j \in 1..(FirstMalformed(range_str) - 1) :
                       TermOutOfBounds(TermsOf(range_str)[j], total_pages)
           IN /\ ~result.ok
              /\ IF op \in StrictParseOps /\ earlier
                 THEN result.msg \in {RangeMsg, PageMsg}
                 ELSE result.msg = FormatMsg /\ result.arg = range_str

\* A malformed term after an out-of-bounds one, in a bounds-checking parser.
C4_Witness ==
    /\ pc = "done"
    /\ op \in StrictParseOps
    /\ HasMalformedTerm(range_str)
    /\ FirstMalformed(range_str) = 2
    /\ TermOutOfBounds(TermsOf(range_str)[1], total_pages)
    /\ result.msg = PageMsg

\* 'all' in every letter case.
AllWords == {<<a, l1, l2>> : a \in {"a", "A"}, l1 \in {"l", "L"}, l2 \in {"l", "L"}}

\* C5: the empty string, and any string that trimmed equals 'all' in any
\* letter case, yields exactly [0 .. total_pages - 1] in every parser, for
\* every total_pages >= 0.
C5_AllReturnsEveryPage ==
    (Parsed /\ (range_str = <<>> \/ py_strip(range_str) \in AllWords))
        => (result.ok /\ result.value = [i \in 1..total_pages |-> i - 1])

\* ' aLL ' on a document with pages.
C5_Witness ==
    /\ Parsed
    /\ range_str = <<" ", "a", "L", "L", " ">>
    /\ total_pages = MaxPages
    /\ result.ok
    /\ Len(result.value) = MaxPages

(***************************************************************************)
(* The file system and the PDF library, as the operations use them.       *)
(* A path is its directory ("" for the working directory) and its file    *)
(* name, the name a list of pieces so that derived names can be built.    *)
(***************************************************************************)
Path(dir, name) == [dir |-> dir, name |-> name]

NoPath == Path("", <<>>)

\* A readable PDF of n pages whose page i is handle <<doc, i>>.
Doc(doc, n) == [kind |-> "pdf", pages |-> [i \in 1..n |-> <<doc, i - 1>>]]

\* A file PdfReader cannot read.
Corrupt == [kind |-> "corrupt", pages |-> <<>>]

SetMin(S) == CHOOSE x \in S : \A y \in S : x <= y
SetMax(S) == CHOOSE x \in S : \A y \in S : y <= x

\* reader.pages[i]: a Python sequence index, negative ones counted from the
\* end, IndexError outside [-len, len).
PagesHas(pages, i) == i \in (0 - Len(pages))..(Len(pages) - 1)

PagesAt(pages, i) == IF i < 0 THEN pages[Len(pages) + i + 1] ELSE pages[i + 1]

\* file_path.lower().endswith('.pdf')
EndsWithPdf(path) ==
    path.name # <<>> /\ path.name[Len(path.name)] \in {".pdf", ".PDF"}

\* One entry of the trace.
Entry(ev, path, current, total, tag) ==
    [ev |-> ev, path |-> path, current |-> current, total |-> total, tag |-> tag]

Did(ev, path) == <<Entry(ev, path, 0, 0, "")>>

\* The callback a caller registered: whether one is set, and the messages
\* at which it raises.
Callback == [set |-> progress_callback, raises |-> callback_raises]

NoCallback == [set |-> FALSE, raises |-> {}]

\* A variant of _update_progress that reports the step about to start.
update_progress_Ahead(cb, current, total, tag) ==
    IF ~cb.set THEN <<>>
    ELSE <<Entry("progress", NoPath, current + 1, total, tag)>>
         \o (IF tag \in cb.raises
             THEN <<Entry("raise", NoPath, current + 1, total, tag)>> ELSE <<>>)

\* _update_progress(current, total, message): the callback, if one is set,
\* is called with the three arguments; what it raises leaves
\* _update_progress as it is, which the `raise` entry records.
update_progress(cb, current, total, tag) ==
    IF ~cb.set THEN <<>>
    ELSE <<Entry("progress", NoPath, current, total, tag)>>
         \o (IF tag \in cb.raises
             THEN <<Entry("raise", NoPath, current, total, tag)>> ELSE <<>>)

\* Whether the callback raised during a call, and the call's trace up to
\* there: nothing after the first raise has happened.
CallbackRaised(tr) == \E k \in DOMAIN tr : tr[k].ev = "raise"

UpToRaise(tr) == SubSeq(tr, 1, SetMin({k \in DOMAIN tr : tr[k].ev = "raise"}))

\* str(e) of what the callback raised.
CallbackError == <<"callback raised">>

\* The files written and the directories made along a trace.
Written(tr) == {tr[k].path : k \in {j \in DOMAIN tr : tr[j].ev = "write"}}

MadeDirs(tr) == {tr[k].path.dir : k \in {j \in DOMAIN tr : tr[j].ev = "makedirs"}}

\* The files after the part `tr` of a call that, run to its end from fs_,
\* leaves done_fs.
fs_after(fs_, tr, done_fs) ==
    [q \in DOMAIN fs_ \cup Written(tr) |->
        IF q \in Written(tr) THEN done_fs[q] ELSE fs_[q]]

\* The file `path` holding the pages a writer wrote.
WriteFile(fs_, path, pages) ==
    [q \in DOMAIN fs_ \cup {path} |->
        IF q = path THEN [kind |-> "pdf", pages |-> pages] ELSE fs_[q]]

(***************************************************************************)
(* PDFMerger.validate_pdf and PDFMerger.merge_pdfs                         *)
(***************************************************************************)
validate_pdf(fs_, file_path) ==
    IF file_path \notin DOMAIN fs_ THEN PDFMergerError("File not found", file_path.name)
    ELSE IF ~EndsWithPdf(file_path) THEN PDFMergerError("Not a PDF file", file_path.name)
    ELSE IF fs_[file_path].kind # "pdf" \/ Len(fs_[file_path].pages) = 0
    THEN PDFMergerError("Invalid or corrupted PDF file", file_path.name)
    ELSE Returned(TRUE)

\* What validate_pdf does: the call, and the PdfReader it opens once the
\* path exists and ends with .pdf.
validate_pdf_trace(fs_, file_path) ==
    Did("validate_pdf", file_path)
    \o (IF file_path \in DOMAIN fs_ /\ EndsWithPdf(file_path)
        THEN Did("PdfReader", file_path) ELSE <<>>)

\* A variant that takes every page of a source whatever page_ranges says.
PDFMerger_pages_to_add_Everything(fs_, page_ranges, file_path) ==
    Returned(py_range(0, Len(fs_[file_path].pages)))

\* The page range of one source: its entry of page_ranges, if any.
PDFMerger_pages_to_add(fs_, page_ranges, file_path) ==
    LET num_pages == Len(fs_[file_path].pages)
    IN IF file_path \in DOMAIN page_ranges
       THEN PDFMerger_parse_page_range(page_ranges[file_path], num_pages)
       ELSE Returned(py_range(0, num_pages))

\* The inner loop over one source, given its pages and its parsed range:
\* the pages are added in pages_to_add order until an index raises.
add_pages(pages, r, bad) ==
    [ok    |-> r.ok /\ bad = {},
     added |-> [k \in 1..(IF bad = {} THEN Len(r.value) ELSE SetMin(bad) - 1) |->
                   PagesAt(pages, r.value[k])],
     count |-> Len(r.value),
     error |-> IF ~r.ok THEN r.msg ELSE "Sequence index out of range"]

add_pages_of(pages, r) ==
    add_pages(pages, r, {k \in DOMAIN r.value : ~PagesHas(pages, r.value[k])})

PDFMerger_add_source(fs_, page_ranges, file_path) ==
    add_pages_of(fs_[file_path].pages,
                 PDFMerger_pages_to_add(fs_, page_ranges, file_path))

\* What a call leaves behind.
Outcome(res, tr, w, fs_, dirs_) ==
    [result |-> res, trace |-> tr, writer |-> w, fs |-> fs_, dirs |-> dirs_]

\* A call whose callback raised inside the try block of an operation of
\* PDFSplitter or PDFModifier: the except clause raises `error`, and what
\* was written or made before stays.
except_callback(o, fs_, dirs_, error) ==
    IF ~CallbackRaised(o.trace) THEN o
    ELSE Outcome(error, UpToRaise(o.trace), o.writer,
                 fs_after(fs_, UpToRaise(o.trace), o.fs),
                 dirs_ \cup MadeDirs(UpToRaise(o.trace)))

\* The validation loop from file i on: the trace so far, until a file is
\* rejected or all have passed.
RECURSIVE validate_loop(_, _, _, _, _)
validate_loop(i, tr, input_files, cb, fs_) ==
    IF i > Len(input_files) THEN [ok |-> TRUE, trace |-> tr, error |-> NoResult]
    ELSE IF validate_pdf(fs_, input_files[i]).ok
    THEN validate_loop(i + 1,
                       tr \o validate_pdf_trace(fs_, input_files[i])
                          \o update_progress(cb, i, Len(input_files), "Validated"),
                       input_files, cb, fs_)
    ELSE [ok    |-> FALSE,
          trace |-> tr \o validate_pdf_trace(fs_, input_files[i]),
          error |-> validate_pdf(fs_, input_files[i])]

\* The merge loop from file i on, given the writer's pages and the trace so
\* far, until a source raises or all are added.
RECURSIVE merge_loop(_, _, _, _, _, _, _)
merge_step(i, pages, tr, input_files, page_ranges, cb, fs_, step) ==
    IF step.ok
    THEN merge_loop(i + 1, pages \o step.added,
                    tr \o Did("PdfReader", input_files[i])
                       \o update_progress(cb, i, Len(input_files), "Added"),
                    input_files, page_ranges, cb, fs_)
    ELSE [ok    |-> FALSE,
          pages |-> pages \o step.added,
          trace |-> tr \o Did("PdfReader", input_files[i]),
          error |-> step.error]

merge_loop(i, pages, tr, input_files, page_ranges, cb, fs_) ==
    IF i > Len(input_files)
    THEN [ok |-> TRUE, pages |-> pages, trace |-> tr, error |-> ""]
    ELSE merge_step(i, pages, tr, input_files, page_ranges, cb, fs_,
                    PDFMerger_add_source(fs_, page_ranges, input_files[i]))

\* The output's directory is made if it is named and missing.
makes_dir(output_file, dirs_) ==
    output_file.dir # "" /\ output_file.dir \notin dirs_

\* A variant that writes the pages added so far before re-raising.
merge_write_PartialOutput(n, output_file, cb, fs_, dirs_, m) ==
    Outcome(IF m.ok THEN Returned(TRUE)
            ELSE PDFMergerError("Failed to merge PDFs", <<m.error>>),
            m.trace \o Did("write", output_file),
            [created |-> TRUE, pages |-> m.pages],
            WriteFile(fs_, output_file, m.pages), dirs_)

\* The end of merge_pdfs: the merged file is written, or the loop's
\* exception is re-raised as PDFMergerError.
merge_write(n, output_file, cb, fs_, dirs_, m) ==
    IF ~m.ok
    THEN Outcome(PDFMergerError("Failed to merge PDFs", <<m.error>>), m.trace,
                 [created |-> TRUE, pages |-> m.pages], fs_, dirs_)
    ELSE Outcome(Returned(TRUE),
                 m.trace
                 \o update_progress(cb, n, n, "Writing merged PDF...")
                 \o (IF makes_dir(output_file, dirs_)
                     THEN Did("makedirs", Path(output_file.dir, <<>>)) ELSE <<>>)
                 \o Did("write", output_file)
                 \o update_progress(cb, n, n, "Successfully merged"),
                 [created |-> TRUE, pages |-> m.pages],
                 WriteFile(fs_, output_file, m.pages),
                 IF makes_dir(output_file, dirs_)
                 THEN dirs_ \cup {output_file.dir} ELSE dirs_)

merge_validated(input_files, output_file, page_ranges, cb, fs_, dirs_, writer_, v) ==
    IF ~v.ok THEN Outcome(v.error, v.trace, writer_, fs_, dirs_)
    ELSE merge_write(Len(input_files), output_file, cb, fs_, dirs_,
             merge_loop(1, <<>>,
                        v.trace \o Did("PdfWriter", NoPath)
                                \o update_progress(cb, 0, Len(input_files),
                                                   "Merging PDF files..."),
                        input_files, page_ranges, cb, fs_))

\* The number of sources added along a trace.
sources_added(tr) ==
    Cardinality({k \in DOMAIN tr : tr[k].ev = "progress" /\ tr[k].tag = "Added"})

\* merge_pdfs when its callback raised.  The calls before the try block
\* (the two start messages and the one per validated file) let the
\* callback's exception out as it is; those inside the try block have it
\* re-raised as PDFMergerError.  The writer holds the sources added so far.
merge_callback_raised(input_files, page_ranges, fs_, dirs_, writer_, o) ==
    IF ~CallbackRaised(o.trace) THEN o
    ELSE Outcome(IF UpToRaise(o.trace)[Len(UpToRaise(o.trace))].tag
                       \in {"Validating PDF files...", "Validated",
                            "Merging PDF files..."}
                 THEN Raised("Exception", "callback raised", <<>>)
                 ELSE PDFMergerError("Failed to merge PDFs", CallbackError),
                 UpToRaise(o.trace),
                 IF \E k \in DOMAIN UpToRaise(o.trace) :
                        UpToRaise(o.trace)[k].ev = "PdfWriter"
                 THEN [created |-> TRUE,
                       pages |-> merge_loop(1, <<>>, <<>>,
                                     SubSeq(input_files, 1,
                                            sources_added(UpToRaise(o.trace))),
                                     page_ranges, NoCallback, fs_).pages]
                 ELSE writer_,
                 fs_after(fs_, UpToRaise(o.trace), o.fs),
                 dirs_ \cup MadeDirs(UpToRaise(o.trace)))

\* A variant that only refuses an empty list of inputs.
merge_pdfs_OneInputAllowed(input_files, output_file, page_ranges, cb, fs_, dirs_, writer_) ==
    IF Len(input_files) = 0
    THEN Outcome(PDFMergerError("No input files provided", <<>>), <<>>, writer_, fs_, dirs_)
    ELSE merge_callback_raised(input_files, page_ranges, fs_, dirs_, writer_,
             merge_validated(input_files, output_file, page_ranges, cb, fs_, dirs_,
                 writer_,
                 validate_loop(1, update_progress(cb, 0, Len(input_files),
                                                  "Validating PDF files..."),
                               input_files, cb, fs_)))

merge_pdfs(input_files, output_file, page_ranges, cb, fs_, dirs_, writer_) ==
    IF Len(input_files) = 0
    THEN Outcome(PDFMergerError("No input files provided", <<>>), <<>>, writer_, fs_, dirs_)
    ELSE IF Len(input_files) < 2
    THEN Outcome(PDFMergerError("At least 2 PDF files are required for merging", <<>>),
                 <<>>, writer_, fs_, dirs_)
    ELSE merge_callback_raised(input_files, page_ranges, fs_, dirs_, writer_,
             merge_validated(input_files, output_file, page_ranges, cb, fs_, dirs_,
                 writer_,
                 validate_loop(1, update_progress(cb, 0, Len(input_files),
                                                  "Validating PDF files..."),
                               input_files, cb, fs_)))

(***************************************************************************)
(* Merging: the files on disk, and one merge_pdfs call per behaviour.      *)
(***************************************************************************)
FileA == Path("", <<"a", ".pdf">>)
FileB == Path("", <<"b", ".pdf">>)
FileC == Path("", <<"c", ".txt">>)
FileOut == Path("", <<"out", ".pdf">>)
FileDirOut == Path("d", <<"out", ".pdf">>)

\* a.pdf has MaxPages pages; b.pdf is missing, unreadable, or has
\* 0..MaxPages pages; c.txt is a PDF under another extension; out.pdf may
\* exist already.
MergeFileSystems ==
    {((FileA :> Doc("a", MaxPages)) @@ (FileC :> Doc("c", 1))) @@ (b @@ o) :
        b \in {<<>>, FileB :> Corrupt} \cup {FileB :> Doc("b", k) : k \in 0..MaxPages},
        o \in {<<>>, FileOut :> Doc("old", 1)}}

MergeInputs == UNION {[1..n -> {FileA, FileB, FileC}] : n \in 0..MaxFiles}

MergeRanges ==
    {<<>>, <<"A", "l", "l">>, <<"1">>, <<"1", "-", "2">>, <<"2", ",", "1">>,
     <<"0">>, <<"x">>}

\* page_ranges: None (the empty dict behaves alike), or a dict over a.pdf, b.pdf.
MergePageRanges == UNION {[D -> MergeRanges] : D \in SUBSET {FileA, FileB}}

InitMerge ==
    /\ pc = "ready"
    /\ op = "none"
    /\ args = <<>>
    /\ range_str = <<>>
    /\ total_pages = 0
    /\ result = NoResult
    /\ fs \in MergeFileSystems
    /\ dirs = {}
    /\ writer = NoWriter
    /\ progress_callback = FALSE
    /\ callback_raises = {}
    /\ trace = <<>>
    /\ gui = NoGui

\* set_progress_callback(callback), before the operation is called.
SetProgressCallback ==
    /\ pc = "ready"
    /\ ~progress_callback
    /\ progress_callback' = TRUE
    /\ callback_raises' = {}
    /\ UNCHANGED <<pc, op, args, range_str, total_pages, result, fs, dirs, writer, trace, gui>>

Merge ==
    /\ pc = "ready"
    /\ \E input_files \in MergeInputs, output_file \in {FileOut, FileDirOut},
          page_ranges \in MergePageRanges :
          \E r \in {merge_pdfs(input_files, output_file, page_ranges,
                              Callback, fs, dirs, writer)} :
             /\ args' = [input_files |-> input_files, output_file |-> output_file,
                         page_ranges |-> page_ranges]
             /\ result' = r.result
             /\ trace' = r.trace
             /\ writer' = r.writer
             /\ fs' = r.fs
             /\ dirs' = r.dirs
    /\ pc' = "done"
    /\ op' = "PDFMerger.merge_pdfs"
    /\ UNCHANGED <<range_str, total_pages, progress_callback, callback_raises, gui>>

NextMerge == SetProgressCallback \/ Merge

SpecMerge == InitMerge /\ [][NextMerge]_vars

Merged == pc = "done" /\ op = "PDFMerger.merge_pdfs"

\* An input validate_pdf accepts.
ValidInput(f) == validate_pdf(fs, f).ok

\* A page_ranges entry that selects within the document: none, empty,
\* 'all', or a well-formed expression within [1, page count].
IsAllEntry(e) == e = <<>> \/ py_strip(e) \in AllWords

SelectsInBounds(pr, f) ==
    \/ f \notin DOMAIN pr
    \/ IsAllEntry(pr[f])
    \/ WellFormedInBounds(pr[f], Len(fs[f].pages))

\* The zero-based indices the entry of f selects, ascending.
SelectedIndices(pr, f) ==
    IF f \notin DOMAIN pr \/ IsAllEntry(pr[f])
    THEN [k \in 1..Len(fs[f].pages) |-> k - 1]
    ELSE py_sorted(NamedIndices(pr[f]))

SelectedPages(pr, f) ==
    [k \in 1..Len(SelectedIndices(pr, f)) |-> fs[f].pages[SelectedIndices(pr, f)[k] + 1]]

\* C1: merge_pdfs with n >= 2 valid inputs, each with no range, an
\* empty/'all' range or an in-bounds range, writes the concatenation, in
\* input_files order, of each input's selected pages in ascending order.
C1_MergeConcatenates ==
    (/\ Merged
     /\ Len(args.input_files) >= 2
     /\ \A i \in DOMAIN args.input_files :
            /\ ValidInput(args.input_files[i])
            /\ SelectsInBounds(args.page_ranges, args.input_files[i]))
        => /\ result.ok
           /\ args.output_file \in DOMAIN fs
           /\ fs[args.output_file].pages =
                  Flatten([i \in DOMAIN args.input_files |->
                              SelectedPages(args.page_ranges, args.input_files[i])])

\* Three sources, the first with an unordered range, the second with a
\* single page, the third (the first file again) in full.
C1_Witness ==
    /\ Merged
    /\ result.ok
    /\ args.input_files = <<FileA, FileB, FileA>>
    /\ DOMAIN args.page_ranges = {FileB}
    /\ args.page_ranges[FileB] = <<"2", ",", "1">>
    /\ Len(fs[FileB].pages) = 2
    /\ Len(fs[args.output_file].pages) = 2 * MaxPages + 2

\* C6: merge_pdfs with zero or one input file raises PDFMergerError having
\* validated nothing, delivered no progress event, created no writer and
\* left the files and directories as they were.
C6_TooFewInputsNoEffect ==
    [][(/\ pc = "ready"
        /\ op' = "PDFMerger.merge_pdfs"
        /\ Len(args'.input_files) < 2)
           => /\ ~result'.ok
              /\ result'.msg \in {"No input files provided",
                                  "At least 2 PDF files are required for merging"}
              /\ trace' = <<>>
              /\ writer' = writer
              /\ fs' = fs
              /\ dirs' = dirs]_vars

\* One valid input, a callback registered.
C6_Witness ==
    /\ Merged
    /\ progress_callback
    /\ args.input_files = <<FileA>>
    /\ ~result.ok
    /\ result.msg = "At least 2 PDF files are required for merging"

(***************************************************************************)
(* PDFSplitter.extract_pages, split_by_page_count, split_by_ranges         *)
(***************************************************************************)
\* os.path.splitext(os.path.basename(path))[0]: the name without its
\* extension, the last piece when that starts with a dot.
base_name(path) ==
    IF path.name # <<>> /\ path.name[Len(path.name)] \in {".pdf", ".PDF", ".txt"}
    THEN SubSeq(path.name, 1, Len(path.name) - 1)
    ELSE path.name

\* The pages of a document at a list of valid zero-based indices.
PagesOf(pages, indices) == [k \in DOMAIN indices |-> PagesAt(pages, indices[k])]

\* The progress events of a loop over k items: (1, k) .. (k, k).
RECURSIVE step_events(_, _, _, _)
step_events(cb, i, k, tag) ==
    IF i > k THEN <<>>
    ELSE update_progress(cb, i, k, tag) \o step_events(cb, i + 1, k, tag)

\* open(path, 'wb') needs the directory of path to exist.
can_open_for_write(path, dirs_) == path.dir = "" \/ path.dir \in dirs_

\* The page loop and the write of extract_pages, given the parsed pages.
extract_write(input_file, output_file, cb, fs_, dirs_, r) ==
    IF ~can_open_for_write(output_file, dirs_)
    THEN Outcome(PDFSplitterError("Failed to extract pages", <<"No such file or directory">>),
                 Did("PdfReader", input_file)
                 \o update_progress(cb, 0, Len(r.value), "Extracting pages...")
                 \o Did("PdfWriter", NoPath)
                 \o step_events(cb, 1, Len(r.value), "Extracted page"),
                 NoWriter, fs_, dirs_)
    ELSE Outcome(Returned(TRUE),
                 Did("PdfReader", input_file)
                 \o update_progress(cb, 0, Len(r.value), "Extracting pages...")
                 \o Did("PdfWriter", NoPath)
                 \o step_events(cb, 1, Len(r.value), "Extracted page")
                 \o Did("write", output_file)
                 \o update_progress(cb, Len(r.value), Len(r.value),
                                    "Successfully extracted"),
                 NoWriter,
                 WriteFile(fs_, output_file, PagesOf(fs_[input_file].pages, r.value)),
                 dirs_)

\* A variant that writes whatever the parser returned, an empty list too.
extract_parsed_NoEmptyCheck(input_file, output_file, cb, fs_, dirs_, r) ==
    IF ~r.ok
    THEN Outcome(PDFSplitterError("Failed to extract pages", <<r.msg>>),
                 Did("PdfReader", input_file), NoWriter, fs_, dirs_)
    ELSE extract_write(input_file, output_file, cb, fs_, dirs_, r)

extract_parsed(input_file, output_file, cb, fs_, dirs_, r) ==
    IF ~r.ok
    THEN Outcome(PDFSplitterError("Failed to extract pages", <<r.msg>>),
                 Did("PdfReader", input_file), NoWriter, fs_, dirs_)
    ELSE IF r.value = <<>>
    THEN Outcome(PDFSplitterError("Failed to extract pages", <<"No pages to extract">>),
                 Did("PdfReader", input_file), NoWriter, fs_, dirs_)
    ELSE extract_write(input_file, output_file, cb, fs_, dirs_, r)

extract_pages(input_file, page_range, output_file, cb, fs_, dirs_) ==
    IF input_file \notin DOMAIN fs_
    THEN Outcome(PDFSplitterError("File not found", input_file.name), <<>>, NoWriter, fs_, dirs_)
    ELSE IF fs_[input_file].kind # "pdf"
    THEN Outcome(PDFSplitterError("Failed to extract pages", <<"PdfReadError">>),
                 Did("PdfReader", input_file), NoWriter, fs_, dirs_)
    ELSE except_callback(
             extract_parsed(input_file, output_file, cb, fs_, dirs_,
                 PDFSplitter_parse_page_range(page_range, Len(fs_[input_file].pages))),
             fs_, dirs_, PDFSplitterError("Failed to extract pages", CallbackError))

\* if not os.path.exists(output_dir): os.makedirs(output_dir)
makedirs_trace(output_dir, dirs_) ==
    IF output_dir \notin dirs_ THEN Did("makedirs", Path(output_dir, <<>>)) ELSE <<>>

\* A variant that rounds the number of files down.
num_files_of_Floor(total_pages_, pages_per_file) == total_pages_ \div pages_per_file

\* num_files = (total_pages + pages_per_file - 1) // pages_per_file
num_files_of(total_pages_, pages_per_file) ==
    (total_pages_ + pages_per_file - 1) \div pages_per_file

\* min(a, b)
py_min(a, b) == IF a <= b THEN a ELSE b

part_path(input_file, output_dir, file_num) ==
    Path(output_dir, base_name(input_file) \o <<"_part">> \o py_str(file_num + 1)
                     \o <<".pdf">>)

\* The loop of split_by_page_count from file_num on; acc holds the files
\* made, the file system and the trace so far.
RECURSIVE count_loop(_, _, _, _, _, _, _)
count_loop(file_num, acc, input_file, pages_per_file, output_dir, cb, pages) ==
    IF file_num >= num_files_of(Len(pages), pages_per_file) THEN acc
    ELSE count_loop(
             file_num + 1,
             [files |-> Append(acc.files, part_path(input_file, output_dir, file_num)),
              fs    |-> WriteFile(acc.fs, part_path(input_file, output_dir, file_num),
                            PagesOf(pages,
                                py_range(file_num * pages_per_file,
                                         py_min(file_num * pages_per_file + pages_per_file,
                                                Len(pages))))),
              trace |-> acc.trace
                        \o Did("PdfWriter", NoPath)
                        \o Did("write", part_path(input_file, output_dir, file_num))
                        \o update_progress(cb, file_num + 1,
                               num_files_of(Len(pages), pages_per_file), "Created")],
             input_file, pages_per_file, output_dir, cb, pages)

count_done(cb, dirs_, output_dir, n, acc) ==
    Outcome(Returned(acc.files),
            acc.trace \o update_progress(cb, n, n, "Successfully split"),
            NoWriter, acc.fs, dirs_ \cup {output_dir})

\* split_by_page_count from the creation of the output directory on.
split_counted(input_file, pages_per_file, output_dir, cb, fs_, dirs_) ==
    count_done(cb, dirs_, output_dir,
        num_files_of(Len(fs_[input_file].pages), pages_per_file),
        count_loop(0,
            [files |-> <<>>,
             fs    |-> fs_,
             trace |-> Did("PdfReader", input_file)
                       \o makedirs_trace(output_dir, dirs_)
                       \o update_progress(cb, 0,
                              num_files_of(Len(fs_[input_file].pages),
                                           pages_per_file),
                              "Splitting PDF...")],
            input_file, pages_per_file, output_dir, cb, fs_[input_file].pages))

\* A variant that checks pages_per_file only once the document is read and
\* the output directory made.
split_by_page_count_LateCheck(input_file, pages_per_file, output_dir, cb, fs_, dirs_) ==
    IF input_file \notin DOMAIN fs_
    THEN Outcome(PDFSplitterError("File not found", input_file.name), <<>>, NoWriter, fs_, dirs_)
    ELSE IF fs_[input_file].kind # "pdf"
    THEN Outcome(PDFSplitterError("Failed to split PDF", <<"PdfReadError">>),
                 Did("PdfReader", input_file), NoWriter, fs_, dirs_)
    ELSE IF pages_per_file < 1
    THEN Outcome(PDFSplitterError("Pages per file must be at least 1", <<>>),
                 Did("PdfReader", input_file) \o makedirs_trace(output_dir, dirs_),
                 NoWriter, fs_, dirs_ \cup {output_dir})
    ELSE except_callback(
             split_counted(input_file, pages_per_file, output_dir, cb, fs_, dirs_),
             fs_, dirs_, PDFSplitterError("Failed to split PDF", CallbackError))

split_by_page_count(input_file, pages_per_file, output_dir, cb, fs_, dirs_) ==
    IF input_file \notin DOMAIN fs_
    THEN Outcome(PDFSplitterError("File not found", input_file.name), <<>>, NoWriter, fs_, dirs_)
    ELSE IF pages_per_file < 1
    THEN Outcome(PDFSplitterError("Pages per file must be at least 1", <<>>), <<>>,
                 NoWriter, fs_, dirs_)
    ELSE IF fs_[input_file].kind # "pdf"
    THEN Outcome(PDFSplitterError("Failed to split PDF", <<"PdfReadError">>),
                 Did("PdfReader", input_file), NoWriter, fs_, dirs_)
    ELSE except_callback(
             split_counted(input_file, pages_per_file, output_dir, cb, fs_, dirs_),
             fs_, dirs_, PDFSplitterError("Failed to split PDF", CallbackError))

pages_path(input_file, output_dir, range_str_) ==
    Path(output_dir, base_name(input_file) \o <<"_pages">>
                     \o py_replace(range_str_, ",", "_") \o <<".pdf">>)

\* The loop of split_by_ranges from expression i (1-based) on; acc holds the
\* files made, the file system and the trace so far.  An expression that
\* raises ends the loop; one that resolves to no pages is passed over.
RECURSIVE ranges_loop(_, _, _, _, _, _, _)
ranges_step(i, acc, input_file, ranges, output_dir, cb, pages, r) ==
    IF ~r.ok THEN [acc EXCEPT !.ok = FALSE, !.error = r.msg]
    ELSE IF r.value = <<>>
    THEN ranges_loop(i + 1, acc, input_file, ranges, output_dir, cb, pages)
    ELSE ranges_loop(
             i + 1,
             [acc EXCEPT
                 !.files = Append(@, pages_path(input_file, output_dir, ranges[i])),
                 !.fs    = WriteFile(@, pages_path(input_file, output_dir, ranges[i]),
                                     PagesOf(pages, r.value)),
                 !.trace = @ \o Did("PdfWriter", NoPath)
                             \o Did("write", pages_path(input_file, output_dir, ranges[i]))
                             \o update_progress(cb, i, Len(ranges), "Created file for pages")],
             input_file, ranges, output_dir, cb, pages)

ranges_loop(i, acc, input_file, ranges, output_dir, cb, pages) ==
    IF i > Len(ranges) THEN acc
    ELSE ranges_step(i, acc, input_file, ranges, output_dir, cb, pages,
                     PDFSplitter_parse_page_range(ranges[i], Len(pages)))

ranges_done(cb, dirs_, output_dir, n, acc) ==
    IF ~acc.ok
    THEN Outcome(PDFSplitterError("Failed to split PDF", <<acc.error>>), acc.trace,
                 NoWriter, acc.fs, dirs_ \cup {output_dir})
    ELSE Outcome(Returned(acc.files),
                 acc.trace \o update_progress(cb, n, n, "Successfully created"),
                 NoWriter, acc.fs, dirs_ \cup {output_dir})

split_by_ranges(input_file, ranges, output_dir, cb, fs_, dirs_) ==
    IF input_file \notin DOMAIN fs_
    THEN Outcome(PDFSplitterError("File not found", input_file.name), <<>>, NoWriter, fs_, dirs_)
    ELSE IF ranges = <<>>
    THEN Outcome(PDFSplitterError("No page ranges provided", <<>>), <<>>, NoWriter, fs_, dirs_)
    ELSE IF fs_[input_file].kind # "pdf"
    THEN Outcome(PDFSplitterError("Failed to split PDF", <<"PdfReadError">>),
                 Did("PdfReader", input_file), NoWriter, fs_, dirs_)
    ELSE except_callback(
             ranges_done(cb, dirs_, output_dir, Len(ranges),
                 ranges_loop(1,
                     [ok    |-> TRUE,
                      error |-> "",
                      files |-> <<>>,
                      fs    |-> fs_,
                      trace |-> Did("PdfReader", input_file)
                                \o makedirs_trace(output_dir, dirs_)
                                \o update_progress(cb, 0, Len(ranges),
                                                   "Splitting PDF by ranges...")],
                     input_file, ranges, output_dir, cb, fs_[input_file].pages)),
             fs_, dirs_, PDFSplitterError("Failed to split PDF", CallbackError))

(***************************************************************************)
(* Splitting: one document on disk, and one PDFSplitter call per           *)
(* behaviour.                                                              *)
(***************************************************************************)
\* a.pdf is missing, unreadable, or has 0..MaxDocPages pages.
SplitFileSystems ==
    {<<>>, FileA :> Corrupt} \cup {FileA :> Doc("a", k) : k \in 0..MaxDocPages}

SplitExprs ==
    {<<>>, <<"a", "l", "l">>, <<"1">>, <<"2">>, <<"1", "-", "2">>,
     <<"2", ",", "1">>, <<"1", ",", "1">>, <<"1", ",", "2">>, <<"1", "_", "2">>,
     <<"0">>, <<"x">>, <<"2", "-", "1">>}

SplitRangeLists == UNION {[1..n -> SplitExprs] : n \in 0..MaxRanges}

InitSplit ==
    /\ pc = "ready"
    /\ op = "none"
    /\ args = <<>>
    /\ range_str = <<>>
    /\ total_pages = 0
    /\ result = NoResult
    /\ fs \in SplitFileSystems
    /\ dirs \in {{}, {"d"}}
    /\ writer = NoWriter
    /\ progress_callback = FALSE
    /\ callback_raises = {}
    /\ trace = <<>>
    /\ gui = NoGui

ExtractPages ==
    /\ pc = "ready"
    /\ \E page_range \in SplitExprs, output_file \in {FileOut, FileDirOut} :
          \E r \in {extract_pages(FileA, page_range, output_file,
                                  Callback, fs, dirs)} :
             /\ args' = [input_file |-> FileA, page_range |-> page_range,
                         output_file |-> output_file]
             /\ result' = r.result
             /\ trace' = r.trace
             /\ fs' = r.fs
             /\ dirs' = r.dirs
    /\ pc' = "done"
    /\ op' = "PDFSplitter.extract_pages"
    /\ UNCHANGED <<range_str, total_pages, progress_callback, callback_raises, writer, gui>>

SplitByPageCount ==
    /\ pc = "ready"
    /\ \E pages_per_file \in (0 - 1)..(MaxDocPages + 1) :
          \E r \in {split_by_page_count(FileA, pages_per_file, "d",
                                        Callback, fs, dirs)} :
             /\ args' = [input_file |-> FileA, pages_per_file |-> pages_per_file,
                         output_dir |-> "d"]
             /\ result' = r.result
             /\ trace' = r.trace
             /\ fs' = r.fs
             /\ dirs' = r.dirs
    /\ pc' = "done"
    /\ op' = "PDFSplitter.split_by_page_count"
    /\ UNCHANGED <<range_str, total_pages, progress_callback, callback_raises, writer, gui>>

SplitByRanges ==
    /\ pc = "ready"
    /\ \E ranges \in SplitRangeLists :
          \E r \in {split_by_ranges(FileA, ranges, "d", Callback, fs, dirs)} :
             /\ args' = [input_file |-> FileA, ranges |-> ranges, output_dir |-> "d"]
             /\ result' = r.result
             /\ trace' = r.trace
             /\ fs' = r.fs
             /\ dirs' = r.dirs
    /\ pc' = "done"
    /\ op' = "PDFSplitter.split_by_ranges"
    /\ UNCHANGED <<range_str, total_pages, progress_callback, callback_raises, writer, gui>>

NextSplit == SetProgressCallback \/ ExtractPages \/ SplitByPageCount \/ SplitByRanges

SpecSplit == InitSplit /\ [][NextSplit]_vars

Split(o) == pc = "done" /\ op = o

\* The document the splitter was given, when PdfReader can read it.
Readable(fs_, f) == f \in DOMAIN fs_ /\ fs_[f].kind = "pdf"

\* ceil(n / p) for p >= 1: the least k with k * p >= n.
CeilDiv(n, p) == CHOOSE k \in 0..n : k * p >= n /\ \A j \in 0..(k - 1) : j * p < n

\* C7: split_by_page_count of an N-page document with pages_per_file = p >= 1
\* returns ceil(N/p) files part1..partK in order; file f (0-based) holds
\* pages [f*p, min((f+1)*p, N)) in order; the files partition the pages in
\* their original order, none is empty, all but the last hold exactly p, and
\* N = 0 yields no file.
C7_SplitByCountPartitions ==
    (/\ Split("PDFSplitter.split_by_page_count")
     /\ Readable(fs, args.input_file)
     /\ args.pages_per_file >= 1)
        => LET src == fs[args.input_file].pages
               p   == args.pages_per_file
               k   == CeilDiv(Len(src), p)
           IN /\ result.ok
              /\ Len(result.value) = k
              /\ \A f \in 1..k :
                    /\ result.value[f] =
                           Path(args.output_dir,
                                <<"a", "_part">> \o py_str(f) \o <<".pdf">>)
                    /\ result.value[f] \in DOMAIN fs
                    /\ fs[result.value[f]].pages =
                           [j \in 1..(IF f * p <= Len(src) THEN p
                                      ELSE Len(src) - (f - 1) * p) |->
                               src[(f - 1) * p + j]]
                    /\ Len(fs[result.value[f]].pages) >= 1
                    /\ f < k => Len(fs[result.value[f]].pages) = p
              /\ Flatten([f \in 1..k |-> fs[result.value[f]].pages]) = src
              /\ Cardinality(DOMAIN fs) = k + 1

\* Seven pages in chunks of three: files of 3, 3 and 1 pages.
C7_Witness ==
    /\ Split("PDFSplitter.split_by_page_count")
    /\ result.ok
    /\ Len(fs[args.input_file].pages) = 7
    /\ args.pages_per_file = 3
    /\ Len(result.value) = 3
    /\ fs[result.value[3]].pages = <<<<"a", 6>>>>

\* The positions of the expressions that resolve to at least one page.
NonEmptyAt(ranges, n) ==
    {i \in DOMAIN ranges : PDFSplitter_parse_page_range(ranges[i], n).value # <<>>}

\* The j-th smallest element of a set of numbers.
Nth(S, j) == CHOOSE x \in S : Cardinality({y \in S : y < x}) = j - 1

\* C8: a successful split_by_ranges returns, in expression order, one output
\* file per expression that resolves to at least one page, and the file of
\* an expression holds exactly that expression's resolved pages, ascending.
C8_OneFilePerExpression ==
    (Split("PDFSplitter.split_by_ranges") /\ result.ok)
        => LET src  == fs[args.input_file].pages
               kept == NonEmptyAt(args.ranges, Len(src))
           IN /\ Len(result.value) = Cardinality(kept)
              /\ \A j \in DOMAIN result.value :
                    /\ result.value[j] \in DOMAIN fs
                    /\ fs[result.value[j]].pages =
                           PagesOf(src,
                               PDFSplitter_parse_page_range(
                                   args.ranges[Nth(kept, j)], Len(src)).value)

\* C9: split_by_page_count with pages_per_file < 1 and split_by_ranges with
\* an empty list raise PDFSplitterError with nothing read, no directory
\* made, no file written and no progress event delivered.
C9_InvalidArgsNoEffect ==
    [][(/\ pc = "ready"
        /\ \/ op' = "PDFSplitter.split_by_page_count" /\ args'.pages_per_file < 1
           \/ op' = "PDFSplitter.split_by_ranges" /\ args'.ranges = <<>>)
           => /\ ~result'.ok
              /\ result'.msg =
                    IF args'.input_file \notin DOMAIN fs THEN "File not found"
                    ELSE IF op' = "PDFSplitter.split_by_page_count"
                    THEN "Pages per file must be at least 1"
                    ELSE "No page ranges provided"
              /\ trace' = <<>>
              /\ fs' = fs
              /\ dirs' = dirs]_vars

\* pages_per_file = 0 on a readable document, no output directory yet, a
\* callback registered.
C9_Witness ==
    /\ Split("PDFSplitter.split_by_page_count")
    /\ progress_callback
    /\ args.pages_per_file = 0
    /\ Readable(fs, args.input_file)
    /\ dirs = {}
    /\ result.msg = "Pages per file must be at least 1"

\* An expression the parser must reject, or that selects nothing.
RangeUnusable(e, n) ==
    \/ HasMalformedTerm(e)
    \/ \E i \in DOMAIN TermsOf(e) : TermOutOfBounds(TermsOf(e)[i], n)
    \/ IsAllExpr(e) /\ n = 0

\* C10: extract_pages writes exactly the pages of the resolved range, each
\* once and in ascending order whatever the order or repetition of terms;
\* a malformed or out-of-bounds range, or one selecting no page, raises
\* PDFSplitterError and no file is written.
C10_ExtractWritesResolvedRange ==
    [][(/\ pc = "ready"
        /\ op' = "PDFSplitter.extract_pages"
        /\ Readable(fs, args'.input_file))
           => LET src == fs[args'.input_file].pages
                  e   == args'.page_range
              IN /\ RangeUnusable(e, Len(src))
                    => /\ ~result'.ok
                       /\ result'.msg = "Failed to extract pages"
                       /\ fs' = fs
                       /\ \A i \in DOMAIN trace' : trace'[i].ev # "write"
                 /\ ~RangeUnusable(e, Len(src))
                    => result'.ok = can_open_for_write(args'.output_file, dirs)
                 /\ result'.ok
                    => /\ DOMAIN fs' = DOMAIN fs \cup {args'.output_file}
                       /\ LET sel == IF IsAllExpr(e) THEN 0..(Len(src) - 1)
                                     ELSE NamedIndices(e)
                          IN fs'[args'.output_file].pages =
                                [k \in 1..Cardinality(sel) |-> src[Nth(sel, k) + 1]]
                 /\ ~result'.ok => fs' = fs]_vars

\* '2,1' extracted: pages 1 and 2 in ascending order.
C10_Witness ==
    /\ Split("PDFSplitter.extract_pages")
    /\ result.ok
    /\ args.page_range = <<"2", ",", "1">>
    /\ fs[args.output_file].pages = <<<<"a", 0>>, <<"a", 1>>>>

(***************************************************************************)
(* PDFModifier: rotate_pages, add_text_watermark, compress_pdf             *)
(***************************************************************************)
\* page.rotate(rotation): the page with rotation added to its /Rotate; a
\* page never rotated carries no angle.
Rotate(page, rotation) ==
    <<page[1], page[2], (IF Len(page) = 3 THEN page[3] ELSE 0) + rotation>>

\* A variant of the page loop that rotates every page.
rotated_pages_All(pages, pages_to_rotate, rotation) ==
    [k \in DOMAIN pages |-> Rotate(pages[k], rotation)]

\* The pages the loop of rotate_pages adds to the writer.
rotated_pages(pages, pages_to_rotate, rotation) ==
    [k \in DOMAIN pages |->
        IF (k - 1) \in pages_to_rotate THEN Rotate(pages[k], rotation) ELSE pages[k]]

\* The progress events of that loop from page_num on.
RECURSIVE rotate_events(_, _, _, _)
rotate_events(cb, page_num, total_pages_, pages_to_rotate) ==
    IF page_num >= total_pages_ THEN <<>>
    ELSE update_progress(cb, page_num + 1, total_pages_,
             IF page_num \in pages_to_rotate THEN "Rotated page" ELSE "Kept page")
         \o rotate_events(cb, page_num + 1, total_pages_, pages_to_rotate)

\* rotate_pages once the range is parsed.
rotate_parsed(input_file, rotation, output_file, cb, fs_, dirs_, r) ==
    IF ~r.ok
    THEN Outcome(PDFModifierError("Failed to rotate pages", <<r.msg>>),
                 Did("PdfReader", input_file) \o Did("PdfWriter", NoPath),
                 NoWriter, fs_, dirs_)
    ELSE IF ~can_open_for_write(output_file, dirs_)
    THEN Outcome(PDFModifierError("Failed to rotate pages",
                                  <<"No such file or directory">>),
                 Did("PdfReader", input_file) \o Did("PdfWriter", NoPath)
                 \o update_progress(cb, 0, Len(fs_[input_file].pages),
                                    "Rotating pages...")
                 \o rotate_events(cb, 0, Len(fs_[input_file].pages), py_set(r.value)),
                 NoWriter, fs_, dirs_)
    ELSE Outcome(Returned(TRUE),
                 Did("PdfReader", input_file) \o Did("PdfWriter", NoPath)
                 \o update_progress(cb, 0, Len(fs_[input_file].pages),
                                    "Rotating pages...")
                 \o rotate_events(cb, 0, Len(fs_[input_file].pages), py_set(r.value))
                 \o Did("write", output_file)
                 \o update_progress(cb, Len(fs_[input_file].pages),
                                    Len(fs_[input_file].pages), "Successfully rotated"),
                 NoWriter,
                 WriteFile(fs_, output_file,
                           rotated_pages(fs_[input_file].pages, py_set(r.value),
                                         rotation)),
                 dirs_)

rotate_pages(input_file, page_range, rotation, output_file, cb, fs_, dirs_) ==
    IF rotation \notin {90, 180, 270, 0 - 90, 0 - 180, 0 - 270}
    THEN Outcome(PDFModifierError("Rotation must be 90, 180, or 270 degrees", <<>>),
                 <<>>, NoWriter, fs_, dirs_)
    ELSE IF input_file \notin DOMAIN fs_
    THEN Outcome(PDFModifierError("File not found", input_file.name),
                 <<>>, NoWriter, fs_, dirs_)
    ELSE IF fs_[input_file].kind # "pdf"
    THEN Outcome(PDFModifierError("Failed to rotate pages", <<"PdfReadError">>),
                 Did("PdfReader", input_file), NoWriter, fs_, dirs_)
    ELSE except_callback(
             rotate_parsed(input_file, rotation, output_file, cb, fs_, dirs_,
                 PDFModifier_parse_page_range(page_range, Len(fs_[input_file].pages))),
             fs_, dirs_, PDFModifierError("Failed to rotate pages", CallbackError))

\* The file a watermarking writer writes: the pages and the two metadata
\* entries /Watermark and /WatermarkOpacity.
WriteWatermarked(fs_, path, pages, watermark_text, opacity) ==
    [q \in DOMAIN fs_ \cup {path} |->
        IF q = path
        THEN [kind |-> "pdf", pages |-> pages, meta |-> <<watermark_text, opacity>>]
        ELSE fs_[q]]

\* The try block shared in shape by add_text_watermark and compress_pdf:
\* every page is added, then the output is opened and written.
copy_trace(input_file, cb, n, first, each) ==
    Did("PdfReader", input_file) \o Did("PdfWriter", NoPath)
    \o update_progress(cb, 0, n, first)
    \o step_events(cb, 1, n, each)

\* opacity is counted in hundredths: 0.0 <= opacity <= 1.0 is 0..100.
add_text_watermark(input_file, watermark_text, output_file, opacity, cb, fs_, dirs_) ==
    IF input_file \notin DOMAIN fs_
    THEN Outcome(PDFModifierError("File not found", input_file.name),
                 <<>>, NoWriter, fs_, dirs_)
    ELSE IF watermark_text = <<>>
    THEN Outcome(PDFModifierError("Watermark text cannot be empty", <<>>),
                 <<>>, NoWriter, fs_, dirs_)
    ELSE IF ~(0 <= opacity /\ opacity <= 100)
    THEN Outcome(PDFModifierError("Opacity must be between 0.0 and 1.0", <<>>),
                 <<>>, NoWriter, fs_, dirs_)
    ELSE IF fs_[input_file].kind # "pdf"
    THEN Outcome(PDFModifierError("Failed to add watermark", <<"PdfReadError">>),
                 Did("PdfReader", input_file), NoWriter, fs_, dirs_)
    ELSE except_callback(
             IF ~can_open_for_write(output_file, dirs_)
             THEN Outcome(PDFModifierError("Failed to add watermark",
                                           <<"No such file or directory">>),
                          copy_trace(input_file, cb, Len(fs_[input_file].pages),
                                     "Adding watermark...", "Added watermark to page"),
                          NoWriter, fs_, dirs_)
             ELSE Outcome(Returned(TRUE),
                          copy_trace(input_file, cb, Len(fs_[input_file].pages),
                                     "Adding watermark...", "Added watermark to page")
                          \o Did("write", output_file)
                          \o update_progress(cb, Len(fs_[input_file].pages),
                                             Len(fs_[input_file].pages),
                                             "Successfully added watermark"),
                          NoWriter,
                          WriteWatermarked(fs_, output_file, fs_[input_file].pages,
                                           watermark_text, opacity),
                          dirs_),
             fs_, dirs_, PDFModifierError("Failed to add watermark", CallbackError))

\* page.compress_content_streams() raises on a page whose content stream
\* pypdf cannot parse; the pages of the document "bad" are such pages.
compress_content_streams_raises(pages) ==
    \E i \in DOMAIN pages : pages[i][1] = "bad"

compress_pdf(input_file, output_file, cb, fs_, dirs_) ==
    IF input_file \notin DOMAIN fs_
    THEN Outcome(PDFModifierError("File not found", input_file.name),
                 <<>>, NoWriter, fs_, dirs_)
    ELSE IF fs_[input_file].kind # "pdf"
    THEN Outcome(PDFModifierError("Failed to compress PDF", <<"PdfReadError">>),
                 Did("PdfReader", input_file), NoWriter, fs_, dirs_)
    ELSE except_callback(
             IF compress_content_streams_raises(fs_[input_file].pages)
             THEN Outcome(PDFModifierError("Failed to compress PDF",
                                           <<"PdfStreamError">>),
                          copy_trace(input_file, cb, Len(fs_[input_file].pages),
                                     "Compressing PDF...", "Processing page"),
                          NoWriter, fs_, dirs_)
             ELSE IF ~can_open_for_write(output_file, dirs_)
             THEN Outcome(PDFModifierError("Failed to compress PDF",
                                           <<"No such file or directory">>),
                          copy_trace(input_file, cb, Len(fs_[input_file].pages),
                                     "Compressing PDF...", "Processing page"),
                          NoWriter, fs_, dirs_)
             ELSE Outcome(Returned(TRUE),
                          copy_trace(input_file, cb, Len(fs_[input_file].pages),
                                     "Compressing PDF...", "Processing page")
                          \o Did("write", output_file)
                          \o update_progress(cb, Len(fs_[input_file].pages),
                                             Len(fs_[input_file].pages),
                                             "Compressed by"),
                          NoWriter,
                          WriteFile(fs_, output_file, fs_[input_file].pages),
                          dirs_),
             fs_, dirs_, PDFModifierError("Failed to compress PDF", CallbackError))

(***************************************************************************)
(* Modifying: one document on disk, and one PDFModifier call per           *)
(* behaviour.                                                              *)
(***************************************************************************)
\* a.pdf is missing, unreadable, or has 0..MaxPages+1 pages.
ModifyFileSystems ==
    {<<>>, FileA :> Corrupt} \cup {FileA :> Doc("a", k) : k \in 0..(MaxPages + 1)}

\* The angles argparse lets through, and two rotate_pages itself refuses.
Rotations == {90, 180, 270, 0 - 90, 0 - 180, 0 - 270, 0, 45}

WatermarkTexts == {<<>>, <<"w">>}

Opacities == {0 - 10, 0, 30, 100, 110}

InitModify ==
    /\ pc = "ready"
    /\ op = "none"
    /\ args = <<>>
    /\ range_str = <<>>
    /\ total_pages = 0
    /\ result = NoResult
    /\ fs \in ModifyFileSystems
    /\ dirs \in {{}, {"d"}}
    /\ writer = NoWriter
    /\ progress_callback = FALSE
    /\ callback_raises = {}
    /\ trace = <<>>
    /\ gui = NoGui

RotatePages ==
    /\ pc = "ready"
    /\ \E page_range \in SplitExprs, rotation \in Rotations,
          output_file \in {FileOut, FileDirOut} :
          \E r \in {rotate_pages(FileA, page_range, rotation, output_file,
                                 Callback, fs, dirs)} :
             /\ args' = [input_file |-> FileA, page_range |-> page_range,
                         rotation |-> rotation, output_file |-> output_file]
             /\ result' = r.result
             /\ trace' = r.trace
             /\ fs' = r.fs
             /\ dirs' = r.dirs
    /\ pc' = "done"
    /\ op' = "PDFModifier.rotate_pages"
    /\ UNCHANGED <<range_str, total_pages, progress_callback, callback_raises, writer, gui>>

AddTextWatermark ==
    /\ pc = "ready"
    /\ \E watermark_text \in WatermarkTexts, opacity \in Opacities,
          output_file \in {FileOut, FileDirOut} :
          \E r \in {add_text_watermark(FileA, watermark_text, output_file, opacity,
                                       Callback, fs, dirs)} :
             /\ args' = [input_file |-> FileA, watermark_text |-> watermark_text,
                         opacity |-> opacity, output_file |-> output_file]
             /\ result' = r.result
             /\ trace' = r.trace
             /\ fs' = r.fs
             /\ dirs' = r.dirs
    /\ pc' = "done"
    /\ op' = "PDFModifier.add_text_watermark"
    /\ UNCHANGED <<range_str, total_pages, progress_callback, callback_raises, writer, gui>>

CompressPdf ==
    /\ pc = "ready"
    /\ \E output_file \in {FileOut, FileDirOut} :
          \E r \in {compress_pdf(FileA, output_file, Callback, fs, dirs)} :
             /\ args' = [input_file |-> FileA, output_file |-> output_file]
             /\ result' = r.result
             /\ trace' = r.trace
             /\ fs' = r.fs
             /\ dirs' = r.dirs
    /\ pc' = "done"
    /\ op' = "PDFModifier.compress_pdf"
    /\ UNCHANGED <<range_str, total_pages, progress_callback, callback_raises, writer, gui>>

NextModify == SetProgressCallback \/ RotatePages \/ AddTextWatermark \/ CompressPdf

SpecModify == InitModify /\ [][NextModify]_vars

\* An expression the bounds-checking parsers must reject.
RangeRejected(e, n) ==
    \/ HasMalformedTerm(e)
    \/ \E i \in DOMAIN TermsOf(e) : TermOutOfBounds(TermsOf(e)[i], n)

\* C11: rotate_pages writes every page of the input in the original order,
\* the pages of the resolved range rotated by the given angle and all others
\* untouched; a malformed or out-of-bounds range makes the call fail with no
\* output file written.
C11_RotateKeepsPagesRotatesRange ==
    [][(/\ pc = "ready"
        /\ op' = "PDFModifier.rotate_pages"
        /\ Readable(fs, args'.input_file)
        /\ args'.rotation \in {90, 180, 270, 0 - 90, 0 - 180, 0 - 270})
           => LET src == fs[args'.input_file].pages
                  e   == args'.page_range
                  sel == IF IsAllExpr(e) THEN 0..(Len(src) - 1) ELSE NamedIndices(e)
              IN /\ RangeRejected(e, Len(src))
                    => /\ ~result'.ok
                       /\ fs' = fs
                       /\ \A i \in DOMAIN trace' : trace'[i].ev # "write"
                 /\ ~RangeRejected(e, Len(src))
                    => result'.ok = can_open_for_write(args'.output_file, dirs)
                 /\ result'.ok
                    => /\ DOMAIN fs' = DOMAIN fs \cup {args'.output_file}
                       /\ fs'[args'.input_file] = fs[args'.input_file]
                       /\ fs'[args'.output_file].pages =
                             [k \in 1..Len(src) |->
                                 IF (k - 1) \in sel
                                 THEN <<src[k][1], src[k][2], args'.rotation>>
                                 ELSE src[k]]
                 /\ ~result'.ok => fs' = fs]_vars

\* Page 2 of three rotated by 90 degrees, pages 1 and 3 as they were.
C11_Witness ==
    /\ pc = "done"
    /\ op = "PDFModifier.rotate_pages"
    /\ result.ok
    /\ args.page_range = <<"2">>
    /\ args.rotation = 90
    /\ fs[args.output_file].pages = <<<<"a", 0>>, <<"a", 1, 90>>, <<"a", 2>>>>

(***************************************************************************)
(* The seven core operations together: any one call on any of the file     *)
(* systems above.                                                          *)
(***************************************************************************)
InitCore == InitMerge \/ InitSplit \/ InitModify

\* Every message of the seven operations.
Messages ==
    {"Validating PDF files...", "Validated", "Merging PDF files...", "Added",
     "Writing merged PDF...", "Successfully merged",
     "Extracting pages...", "Extracted page", "Successfully extracted",
     "Splitting PDF...", "Created", "Successfully split",
     "Splitting PDF by ranges...", "Created file for pages", "Successfully created",
     "Rotating pages...", "Rotated page", "Kept page", "Successfully rotated",
     "Adding watermark...", "Added watermark to page", "Successfully added watermark",
     "Compressing PDF...", "Processing page", "Compressed by"}

\* Callbacks that raise: at every call; at the message of a finished item
\* (in merge_pdfs the file validated, line 121); at the message that starts
\* the merge (line 128) or ends another operation, its output written; at
\* the message of a source added inside merge_pdfs' try block.
RaisingCallbacks ==
    {Messages,
     {"Validated", "Extracted page", "Created", "Created file for pages",
      "Rotated page", "Kept page", "Added watermark to page", "Processing page"},
     {"Merging PDF files...", "Successfully extracted", "Successfully split",
      "Successfully created", "Successfully rotated",
      "Successfully added watermark", "Compressed by"},
     {"Added"}}

\* set_progress_callback(callback) with a callback that raises.
SetRaisingCallback ==
    /\ pc = "ready"
    /\ ~progress_callback
    /\ progress_callback' = TRUE
    /\ callback_raises' \in RaisingCallbacks
    /\ UNCHANGED <<pc, op, args, range_str, total_pages, result, fs, dirs, writer, trace, gui>>

NextCore == NextMerge \/ NextSplit \/ NextModify \/ SetRaisingCallback

SpecCore == InitCore /\ [][NextCore]_vars

\* The error class of the module an operation belongs to.
ModuleError(o) ==
    IF o = "PDFMerger.merge_pdfs" THEN "PDFMergerError"
    ELSE IF o \in {"PDFSplitter.extract_pages", "PDFSplitter.split_by_page_count",
                   "PDFSplitter.split_by_ranges"} THEN "PDFSplitterError"
    ELSE "PDFModifierError"

\* C12: whatever makes a core operation fail (a range that does not parse,
\* a page index past the end, a file the library cannot read, an output
\* that cannot be opened, a callback that raises), the caller gets the
\* module's own error class and no other exception.
C12_OnlyModuleErrors ==
    (pc = "done" /\ ~result.ok) => result.cls = ModuleError(op)

\* The progress events of a trace, in the order the callback got them.
ProgressEvents(tr) == SelectSeq(tr, LAMBDA e : e.ev = "progress")

\* The positions of a trace holding a completion event: current = total > 0.
CompletionAt(tr) ==
    {i \in DOMAIN tr : tr[i].ev = "progress" /\ tr[i].current = tr[i].total
                       /\ tr[i].total > 0}

\* C13: a successful merge over n sources delivers exactly n + 1 progress
\* events, each with total = n, with current = 0, 1, ..., n in that order.
C13_MergeEmitsNPlusOneEvents ==
    (Merged /\ result.ok /\ progress_callback)
        => LET n  == Len(args.input_files)
               ev == ProgressEvents(trace)
           IN /\ Len(ev) = n + 1
              /\ \A k \in DOMAIN ev : ev[k].total = n /\ ev[k].current = k - 1

\* C14: within one merge_pdfs call the completion event (current = total,
\* total > 0) is delivered exactly once, as the last event of the call, with
\* every source added and the output file written before it.
C14_CompletionOnceAndLast ==
    (Merged /\ result.ok /\ progress_callback)
        => /\ CompletionAt(trace) = {Len(trace)}
           /\ \E w \in DOMAIN trace : trace[w].ev = "write" /\ w < Len(trace)

(***************************************************************************)
(* cli.py: the command handlers.  A handler registers a ProgressPrinter,   *)
(* so every core call it makes runs with a callback; its trace brackets    *)
(* each core call with a `call` entry and a `returned` or `raised` entry.  *)
(***************************************************************************)
\* A path as the command line gives it: a sequence of characters, the
\* pieces of a file name standing for their characters.
path_str(p) == IF p.dir = "" THEN p.name ELSE <<p.dir, "/">> \o p.name

\* One core call as the handler sees it.
Called(name, o) ==
    <<Entry("call", NoPath, 0, 0, name)>> \o o.trace
    \o <<Entry(IF o.result.ok THEN "returned" ELSE "raised", NoPath, 0, 0, name)>>

\* The encodings of standard output: one that encodes every character, and
\* two that do not.
Encodings == {"utf-8", "cp1252", "ascii"}

\* The progress messages with a character the encoding lacks: the arrow of
\* "Compressed by ...", the degree sign of "Rotated page ...".
unencodable(stdout) ==
    IF stdout = "utf-8" THEN {}
    ELSE IF stdout = "cp1252" THEN {"Compressed by"}
    ELSE {"Compressed by", "Rotated page"}

\* ProgressPrinter(args.quiet) as a callback: quiet, it returns at once;
\* otherwise it prints the message to standard output, and print raises
\* UnicodeEncodeError on a character the encoding lacks.
ProgressPrinter(quiet, stdout) ==
    [set |-> TRUE, raises |-> IF quiet THEN {} ELSE unencodable(stdout)]

\* print(f"\u2713 Successfully ...") raises unless the encoding has the check
\* mark.
print_raises(stdout) == stdout # "utf-8"

\* The end of a handler whose calls all returned: the success message is
\* printed inside the try block and 0 returned, or print raises and the
\* generic except clause returns 1.
handler_done(tr, w, fs_, dirs_, stdout) ==
    IF print_raises(stdout)
    THEN Outcome(Returned(1), tr \o <<Entry("raised", NoPath, 0, 0, "print")>>,
                 w, fs_, dirs_)
    ELSE Outcome(Returned(0), tr, w, fs_, dirs_)

\* The handler's return after its only core call: 1 from one of the two
\* except clauses when the call raised.
handler_exit(name, o, stdout) ==
    IF ~o.result.ok
    THEN Outcome(Returned(1), Called(name, o), o.writer, o.fs, o.dirs)
    ELSE handler_done(Called(name, o), o.writer, o.fs, o.dirs, stdout)

\* page_ranges[filepath] = range_str
dict_set(d, k, v) == [q \in DOMAIN d \cup {k} |-> IF q = k THEN v ELSE d[q]]

\* Simple form: ranges[i].strip() for the i-th file, "all" past the list.
RECURSIVE positional_ranges(_, _, _, _)
positional_ranges(i, d, files, ranges) ==
    IF i > Len(files) THEN d
    ELSE positional_ranges(i + 1,
             dict_set(d, files[i],
                      IF i <= Len(ranges) THEN py_strip(ranges[i])
                      ELSE <<"a", "l", "l">>),
             files, ranges)

\* The index of the first ':' of a string that has one.
FirstColon(spec) == SetMin({k \in DOMAIN spec : spec[k] = ":"})

\* The files whose basename or path is filename, by position.
Matching(files, filename) ==
    {i \in DOMAIN files : files[i].name = filename \/ path_str(files[i]) = filename}

\* File-specific form: each spec with a ':' sets the range of the first
\* matching file.
RECURSIVE named_ranges(_, _, _, _)
named_ranges(j, d, files, specs) ==
    IF j > Len(specs) THEN d
    ELSE IF ~py_in(":", specs[j]) THEN named_ranges(j + 1, d, files, specs)
    ELSE IF Matching(files, SubSeq(specs[j], 1, FirstColon(specs[j]) - 1)) = {}
    THEN named_ranges(j + 1, d, files, specs)
    ELSE named_ranges(j + 1,
             dict_set(d,
                 files[SetMin(Matching(files,
                           SubSeq(specs[j], 1, FirstColon(specs[j]) - 1)))],
                 SubSeq(specs[j], FirstColon(specs[j]) + 1, Len(specs[j]))),
             files, specs)

\* The page_ranges dictionary merge_command builds from --pages.
cli_page_ranges(files, pages) ==
    IF pages = <<>> THEN <<>>
    ELSE IF py_in(":", pages) THEN named_ranges(1, <<>>, files, py_split(pages, ","))
    ELSE positional_ranges(1, <<>>, files, py_split(pages, ","))

\* temp_file = args.output + ".tmp"
temp_file(output) == Path(output.dir, output.name \o <<".tmp">>)

\* os.rename(src, dst)
os_rename(fs_, src, dst) ==
    [q \in (DOMAIN fs_ \ {src}) \cup {dst} |-> IF q = dst THEN fs_[src] ELSE fs_[q]]

\* os.remove(path)
os_remove(fs_, path) == [q \in DOMAIN fs_ \ {path} |-> fs_[q]]

\* The --compress step of merge_command, given the merge and the
\* compression of the renamed output: when compress_pdf raised, the
\* temporary file is not removed.
merge_compressed(m, c, output, stdout) ==
    IF ~c.result.ok
    THEN Outcome(Returned(1),
                 Called("PDFMerger.merge_pdfs", m)
                 \o Called("PDFModifier.compress_pdf", c),
                 m.writer, c.fs, c.dirs)
    ELSE handler_done(Called("PDFMerger.merge_pdfs", m)
                      \o Called("PDFModifier.compress_pdf", c),
                      m.writer, os_remove(c.fs, temp_file(output)), c.dirs, stdout)

\* os.rename(src, dst) raises when dst is a directory; the one such path of
\* the model is out.pdf.tmp in the working directory.
rename_fails(dirs_, dst) ==
    dst = Path("", <<"out", ".pdf", ".tmp">>) /\ "out.pdf.tmp" \in dirs_

\* The handler's return when os.rename raised after the merge.
merge_not_renamed(m) ==
    Outcome(Returned(1),
            Called("PDFMerger.merge_pdfs", m)
            \o <<Entry("raised", NoPath, 0, 0, "os.rename")>>,
            m.writer, m.fs, m.dirs)

merge_done(m, output, compress, quiet, stdout) ==
    IF ~m.result.ok \/ ~compress THEN handler_exit("PDFMerger.merge_pdfs", m, stdout)
    ELSE IF rename_fails(m.dirs, temp_file(output)) THEN merge_not_renamed(m)
    ELSE merge_compressed(m,
             compress_pdf(temp_file(output), output, ProgressPrinter(quiet, stdout),
                          os_rename(m.fs, output, temp_file(output)), m.dirs),
             output, stdout)

merge_command(files, output, pages, compress, quiet, stdout, fs_, dirs_) ==
    merge_done(merge_pdfs(files, output, cli_page_ranges(files, pages),
                          ProgressPrinter(quiet, stdout), fs_, dirs_, NoWriter),
               output, compress, quiet, stdout)

\* if args.pages_per_file: ... elif args.by_ranges: ... else: ...
split_mode(pages_per_file, by_ranges) ==
    IF pages_per_file.given /\ pages_per_file.val # 0 THEN "count"
    ELSE IF by_ranges # <<>> THEN "ranges" ELSE "none"

\* ranges = [r.strip() for r in args.by_ranges.split(',')]
cli_ranges(by_ranges) ==
    [i \in DOMAIN py_split(by_ranges, ",") |-> py_strip(py_split(by_ranges, ",")[i])]

split_command(input, output, pages_per_file, by_ranges, quiet, stdout, fs_, dirs_) ==
    IF split_mode(pages_per_file, by_ranges) = "count"
    THEN handler_exit("PDFSplitter.split_by_page_count",
             split_by_page_count(input, pages_per_file.val, output,
                                 ProgressPrinter(quiet, stdout), fs_, dirs_),
             stdout)
    ELSE IF split_mode(pages_per_file, by_ranges) = "ranges"
    THEN handler_exit("PDFSplitter.split_by_ranges",
             split_by_ranges(input, cli_ranges(by_ranges), output,
                             ProgressPrinter(quiet, stdout), fs_, dirs_),
             stdout)
    ELSE Outcome(Returned(1), <<>>, NoWriter, fs_, dirs_)

extract_command(input, pages, output, quiet, stdout, fs_, dirs_) ==
    handler_exit("PDFSplitter.extract_pages",
                 extract_pages(input, pages, output, ProgressPrinter(quiet, stdout),
                               fs_, dirs_),
                 stdout)

rotate_command(input, pages, angle, output, quiet, stdout, fs_, dirs_) ==
    handler_exit("PDFModifier.rotate_pages",
                 rotate_pages(input, pages, angle, output,
                              ProgressPrinter(quiet, stdout), fs_, dirs_),
                 stdout)

watermark_command(input, text, output, opacity, quiet, stdout, fs_, dirs_) ==
    handler_exit("PDFModifier.add_text_watermark",
                 add_text_watermark(input, text, output, opacity,
                                    ProgressPrinter(quiet, stdout), fs_, dirs_),
                 stdout)

compress_command(input, output, quiet, stdout, fs_, dirs_) ==
    handler_exit("PDFModifier.compress_pdf",
                 compress_pdf(input, output, ProgressPrinter(quiet, stdout),
                              fs_, dirs_),
                 stdout)

\* main with no subcommand: help is printed and 1 returned.
main_no_command(fs_, dirs_) == Outcome(Returned(1), <<>>, NoWriter, fs_, dirs_)

(***************************************************************************)
(* The command line: one command per behaviour, on the files of the merge  *)
(* model.                                                                  *)
(***************************************************************************)
\* files is nargs='+': at least one path.
CliFiles == UNION {[1..n -> {FileA, FileB}] : n \in 1..MaxFiles}

\* --pages: absent, the simple form, the file-specific form.
CliPages ==
    {<<>>, <<"1">>, <<"2", ",", "1">>, <<" ", "1", " ", ",", "2">>,
     <<"1", ",", "2", ",", "x">>, <<"x">>,
     <<"a", ".pdf", ":", "2">>,
     <<"b", ".pdf", ":", "1", ",", "a", ".pdf", ":", "2">>,
     <<"a", ".pdf", ":", "1", ",", "2">>,
     <<"a", ".pdf", ":", "1", ",", "a", ".pdf", ":", "2">>,
     <<"c", ".txt", ":", "1">>}

\* --pages-per-file: absent, or an integer.
CliPagesPerFile ==
    {[given |-> FALSE, val |-> 0]} \cup
    {[given |-> TRUE, val |-> k] : k \in (0 - 1)..MaxPages}

\* --by-ranges: absent, or a comma-separated list.
CliByRanges ==
    {<<>>, <<"1">>, <<"1", ",", " ", "2">>, <<"1", "-", "2", ",", "9">>,
     <<"2", ",", "x">>}

\* The files of the merge, and b.pdf as a one-page document whose content
\* stream cannot be compressed.
CliFileSystems ==
    MergeFileSystems
    \cup {((FileA :> Doc("a", MaxPages)) @@ (FileC :> Doc("c", 1)))
            @@ (FileB :> Doc("bad", 1))}

InitCli ==
    /\ pc = "ready"
    /\ op = "none"
    /\ args = <<>>
    /\ range_str = <<>>
    /\ total_pages = 0
    /\ result = NoResult
    /\ fs \in CliFileSystems
    /\ dirs \in SUBSET {"d", "out.pdf.tmp"}
    /\ writer = NoWriter
    /\ progress_callback = FALSE
    /\ callback_raises = {}
    /\ trace = <<>>
    /\ gui = NoGui

MergeCommand ==
    /\ pc = "ready"
    /\ \E files \in CliFiles, output \in {FileOut, FileDirOut},
          pages \in CliPages, compress \in BOOLEAN,
          quiet \in BOOLEAN, stdout \in Encodings :
          \E r \in {merge_command(files, output, pages, compress, quiet, stdout, fs, dirs)} :
             /\ args' = [files |-> files, output |-> output, pages |-> pages,
                         compress |-> compress,
                         quiet |-> quiet]
             /\ callback_raises' = ProgressPrinter(quiet, stdout).raises
             /\ result' = r.result
             /\ trace' = r.trace
             /\ writer' = r.writer
             /\ fs' = r.fs
             /\ dirs' = r.dirs
    /\ pc' = "done"
    /\ op' = "cli.merge_command"
    /\ progress_callback' = TRUE
    /\ UNCHANGED <<range_str, total_pages, gui>>

SplitCommand ==
    /\ pc = "ready"
    /\ \E input \in {FileA, FileB}, pages_per_file \in CliPagesPerFile,
          by_ranges \in CliByRanges, quiet \in BOOLEAN, stdout \in Encodings :
          \E r \in {split_command(input, "d", pages_per_file, by_ranges, quiet, stdout, fs, dirs)} :
             /\ args' = [input |-> input, output |-> "d",
                         pages_per_file |-> pages_per_file, by_ranges |-> by_ranges,
                         quiet |-> quiet]
             /\ callback_raises' = ProgressPrinter(quiet, stdout).raises
             /\ result' = r.result
             /\ trace' = r.trace
             /\ writer' = r.writer
             /\ fs' = r.fs
             /\ dirs' = r.dirs
    /\ pc' = "done"
    /\ op' = "cli.split_command"
    /\ progress_callback' = TRUE
    /\ UNCHANGED <<range_str, total_pages, gui>>

ExtractCommand ==
    /\ pc = "ready"
    /\ \E input \in {FileA, FileB}, pages \in SplitExprs,
          output \in {FileOut, FileDirOut}, quiet \in BOOLEAN, stdout \in Encodings :
          \E r \in {extract_command(input, pages, output, quiet, stdout, fs, dirs)} :
             /\ args' = [input |-> input, pages |-> pages, output |-> output,
                         quiet |-> quiet]
             /\ callback_raises' = ProgressPrinter(quiet, stdout).raises
             /\ result' = r.result
             /\ trace' = r.trace
             /\ writer' = r.writer
             /\ fs' = r.fs
             /\ dirs' = r.dirs
    /\ pc' = "done"
    /\ op' = "cli.extract_command"
    /\ progress_callback' = TRUE
    /\ UNCHANGED <<range_str, total_pages, gui>>

RotateCommand ==
    /\ pc = "ready"
    /\ \E input \in {FileA, FileB}, pages \in SplitExprs, angle \in {90, 180, 270},
          output \in {FileOut, FileDirOut}, quiet \in BOOLEAN, stdout \in Encodings :
          \E r \in {rotate_command(input, pages, angle, output, quiet, stdout, fs, dirs)} :
             /\ args' = [input |-> input, pages |-> pages, angle |-> angle,
                         output |-> output,
                         quiet |-> quiet]
             /\ callback_raises' = ProgressPrinter(quiet, stdout).raises
             /\ result' = r.result
             /\ trace' = r.trace
             /\ writer' = r.writer
             /\ fs' = r.fs
             /\ dirs' = r.dirs
    /\ pc' = "done"
    /\ op' = "cli.rotate_command"
    /\ progress_callback' = TRUE
    /\ UNCHANGED <<range_str, total_pages, gui>>

WatermarkCommand ==
    /\ pc = "ready"
    /\ \E input \in {FileA, FileB}, text \in WatermarkTexts, opacity \in Opacities,
          output \in {FileOut, FileDirOut}, quiet \in BOOLEAN, stdout \in Encodings :
          \E r \in {watermark_command(input, text, output, opacity, quiet, stdout, fs, dirs)} :
             /\ args' = [input |-> input, text |-> text, opacity |-> opacity,
                         output |-> output,
                         quiet |-> quiet]
             /\ callback_raises' = ProgressPrinter(quiet, stdout).raises
             /\ result' = r.result
             /\ trace' = r.trace
             /\ writer' = r.writer
             /\ fs' = r.fs
             /\ dirs' = r.dirs
    /\ pc' = "done"
    /\ op' = "cli.watermark_command"
    /\ progress_callback' = TRUE
    /\ UNCHANGED <<range_str, total_pages, gui>>

CompressCommand ==
    /\ pc = "ready"
    /\ \E input \in {FileA, FileB}, output \in {FileOut, FileDirOut},
          quiet \in BOOLEAN, stdout \in Encodings :
          \E r \in {compress_command(input, output, quiet, stdout, fs, dirs)} :
             /\ args' = [input |-> input, output |-> output,
                         quiet |-> quiet]
             /\ callback_raises' = ProgressPrinter(quiet, stdout).raises
             /\ result' = r.result
             /\ trace' = r.trace
             /\ writer' = r.writer
             /\ fs' = r.fs
             /\ dirs' = r.dirs
    /\ pc' = "done"
    /\ op' = "cli.compress_command"
    /\ progress_callback' = TRUE
    /\ UNCHANGED <<range_str, total_pages, gui>>

\* main(argv) with no subcommand.
MainNoCommand ==
    /\ pc = "ready"
    /\ \E r \in {main_no_command(fs, dirs)} :
       /\ args' = [command |-> ""]
       /\ result' = r.result
       /\ trace' = r.trace
       /\ writer' = r.writer
       /\ fs' = r.fs
       /\ dirs' = r.dirs
    /\ pc' = "done"
    /\ op' = "cli.main"
    /\ UNCHANGED <<range_str, total_pages, progress_callback, callback_raises, gui>>

NextCli ==
    \/ MergeCommand
    \/ SplitCommand
    \/ ExtractCommand
    \/ RotateCommand
    \/ WatermarkCommand
    \/ CompressCommand
    \/ MainNoCommand

SpecCli == InitCli /\ [][NextCli]_vars

\* The six command handlers.
Handlers ==
    {"cli.merge_command", "cli.split_command", "cli.extract_command",
     "cli.rotate_command", "cli.watermark_command", "cli.compress_command"}

\* The core calls a handler made, and those that raised.
CoreCalls(tr) == SelectSeq(tr, LAMBDA e : e.ev = "call")
CoreRaised(tr) ==
    SelectSeq(tr, LAMBDA e : e.ev = "raised" /\ e.tag \notin {"os.rename", "print"})

\* C15 as stated: a handler returns 0 exactly when every core call it made
\* completed without an exception and 1 otherwise, and no exception leaves
\* it; main returns 1 when no subcommand is given.
C15_ExitZeroIffNoCoreFailure ==
    /\ (pc = "done" /\ op \in Handlers) =>
          /\ result.ok
          /\ result.value \in {0, 1}
          /\ result.value = 0 <=> CoreRaised(trace) = <<>>
    /\ (pc = "done" /\ op = "cli.main") => (result.ok /\ result.value = 1)

\* The range --pages gives the i-th input file, in the claim's words.  In
\* the simple form it is the i-th item, trimmed, or nothing past the list.
\* In the file-specific form it is the range of the last item name:range
\* whose name is the basename or path of the file and of no earlier file.
PagesItems(pages) == py_split(pages, ",")

ItemName(item) == SubSeq(item, 1, FirstColon(item) - 1)

ItemRange(item) == SubSeq(item, FirstColon(item) + 1, Len(item))

NameOf(f, name) == f.name = name \/ path_str(f) = name

ItemsNaming(files, pages, i) ==
    {j \in DOMAIN PagesItems(pages) :
        /\ py_in(":", PagesItems(pages)[j])
        /\ NameOf(files[i], ItemName(PagesItems(pages)[j]))
        /\ \A k \in 1..(i - 1) :
              files[k] # files[i] => ~NameOf(files[k], ItemName(PagesItems(pages)[j]))}

RangeOfFile(files, pages, i) ==
    IF ~py_in(":", pages)
    THEN (IF i <= Len(PagesItems(pages)) THEN py_strip(PagesItems(pages)[i]) ELSE <<>>)
    ELSE IF ItemsNaming(files, pages, i) = {} THEN <<>>
    ELSE ItemRange(PagesItems(pages)[SetMax(ItemsNaming(files, pages, i))])

\* The pages of file f that range e selects, e being empty, 'all' or within
\* the document.
PagesUnder(f, e) == SelectedPages(f :> e, f)

\* C16: merge --pages gives the i-th file the i-th comma-separated item,
\* trimmed, files past the list being merged in full and surplus items
\* ignored; in the file-specific form each name:range item sets the range
\* of the first input file whose basename or path is name, the other files
\* being merged in full.  Stated on the output of a merge of valid files
\* whose ranges select within their documents.
C16_PagesAssignRanges ==
    (/\ pc = "done"
     /\ op = "cli.merge_command"
     /\ Len(args.files) >= 2
     /\ args.pages # <<>>
     /\ \A i \in DOMAIN args.files :
            /\ ValidInput(args.files[i])
            /\ SelectsInBounds(args.files[i] :> RangeOfFile(args.files, args.pages, i),
                               args.files[i]))
        => /\ args.output \in DOMAIN fs
           /\ fs[args.output].pages =
                 Flatten([i \in DOMAIN args.files |->
                            PagesUnder(args.files[i],
                                       RangeOfFile(args.files, args.pages, i))])

\* C17: in merge_pdfs a term that resolves to an index outside
\* [0, page count) never has a page copied for it, and no page the
\* expression did not name is added: every page the writer holds after the
\* call is a page of an input with no range, with an 'all' range, or whose
\* range names that page's index.
C17_OnlyNamedPagesAdded ==
    Merged =>
        \A k \in DOMAIN writer.pages :
            \E i \in DOMAIN args.input_files :
                /\ Readable(fs, args.input_files[i])
                /\ \E j \in DOMAIN fs[args.input_files[i]].pages :
                       fs[args.input_files[i]].pages[j] = writer.pages[k]
                /\ \/ args.input_files[i] \notin DOMAIN args.page_ranges
                   \/ IsAllEntry(args.page_ranges[args.input_files[i]])
                   \/ writer.pages[k][2] \in
                          NamedIndices(args.page_ranges[args.input_files[i]])

\* C18: a failing split_by_ranges call leaves no output file written by
\* that call, wherever the failing expression stands in the list.
C18_FailedSplitWritesNothing ==
    (Split("PDFSplitter.split_by_ranges") /\ ~result.ok)
        => /\ SelectSeq(trace, LAMBDA e : e.ev = "write") = <<>>
           /\ \A q \in DOMAIN fs : q.dir # "d"

\* The positions of the entries of a trace with one of the given events.
At(tr, evs) == {k \in DOMAIN tr : tr[k].ev \in evs}

\* An input whose range has a malformed term, or names a page past the end
\* of the document.
RangeFailsMerge(pr, f) ==
    /\ f \in DOMAIN pr
    /\ ~IsAllEntry(pr[f])
    /\ \/ HasMalformedTerm(pr[f])
       \/ \E p \in NamedIndices(pr[f]) : p >= Len(fs[f].pages)

\* C19: merge_pdfs validates every input before it adds a page and creates
\* the output only after all pages are added: the writer is created after
\* the last validation and before the only write; a call with an invalid
\* input adds no page; and a call with an invalid input, a malformed range
\* or an index past the end of a source fails, every failing call leaving
\* the files, the output path among them, as they were.
C19_ValidateAddWriteInOrder ==
    [][(/\ pc = "ready"
        /\ op' = "PDFMerger.merge_pdfs"
        /\ Len(args'.input_files) >= 2)
           => /\ \A i \in At(trace', {"validate_pdf"}),
                    j \in At(trace', {"PdfWriter", "write", "makedirs"}) : i < j
              /\ \A i \in At(trace', {"PdfWriter"}), j \in At(trace', {"write"}) : i < j
              /\ At(trace', {"PdfWriter"}) # {}
                    => Cardinality(At(trace', {"validate_pdf"})) = Len(args'.input_files)
              /\ At(trace', {"PdfWriter"}) = {} => writer' = writer
              /\ At(trace', {"write"}) # {}
                    => /\ Cardinality(At(trace', {"write"})) = 1
                       /\ fs'[args'.output_file].pages = writer'.pages
              /\ (\E i \in DOMAIN args'.input_files : ~ValidInput(args'.input_files[i]))
                    => (~result'.ok /\ writer' = writer)
              /\ ((\A i \in DOMAIN args'.input_files : ValidInput(args'.input_files[i]))
                  /\ \E i \in DOMAIN args'.input_files :
                        RangeFailsMerge(args'.page_ranges, args'.input_files[i]))
                    => ~result'.ok
              /\ ~result'.ok => (fs' = fs /\ At(trace', {"write"}) = {})]_vars

\* A merge that failed on the second source's range after the first
\* source's pages were added, out.pdf being there from before.
C19_Witness ==
    /\ Merged
    /\ ~result.ok
    /\ result.msg = "Failed to merge PDFs"
    /\ writer.pages # <<>>
    /\ args.output_file = FileOut
    /\ FileOut \in DOMAIN fs
    /\ fs[FileOut] = Doc("old", 1)

\* C20: an expression of white space only is treated like the empty
\* expression: each parse_page_range returns [0 .. total_pages-1] for it.
C20_BlankMeansAll ==
    (Parsed /\ range_str # <<>> /\ py_strip(range_str) = <<>>)
        => /\ result.ok
           /\ result.value = [k \in 1..total_pages |-> k - 1]

\* C21: split_by_ranges delivers one progress event per expression, in
\* order, skipped expressions included: between the opening event and the
\* closing event of a successful call over k expressions the events carry
\* current = 1, 2, ..., k.
C21_OneEventPerExpression ==
    (Split("PDFSplitter.split_by_ranges") /\ result.ok /\ progress_callback)
        => /\ Len(ProgressEvents(trace)) = Len(args.ranges) + 2
           /\ \A j \in 1..Len(args.ranges) :
                 /\ ProgressEvents(trace)[j + 1].current = j
                 /\ ProgressEvents(trace)[j + 1].total = Len(args.ranges)

(***************************************************************************)
(* gui.py and gui_enhanced.py: the file list and its display, the worker   *)
(* threads the buttons start, and the callbacks the workers schedule on    *)
(* the Tk thread with root.after.  A handler of the Tk thread runs to its  *)
(* end before the next one starts; the worker threads take their steps     *)
(* between two handlers and between two statements of a handler, so a      *)
(* handler that changes a list in more than one store shows the workers    *)
(* the list between its stores.  The core operation a worker runs is kept  *)
(* to what the GUI sees of it: the files it reads from the list it was     *)
(* given, the widget updates of its progress callback, and how it ends.    *)
(***************************************************************************)
\* Most worker threads started in a behaviour.
MaxWorkers == 2
MaxRows == 2

\* Two files of one name in two folders.
GuiPaths == {Path("x", <<"a", ".pdf">>), Path("y", <<"a", ".pdf">>)}

\* "all", and a range the user may type.
RangeAll == <<"a", "l", "l">>
GuiRanges == {RangeAll, <<"1">>}

\* The application after __init__: empty lists, buttons enabled.
NewGui(app) ==
    [app |-> app, files |-> <<>>, rows |-> <<>>, page_ranges |-> <<>>,
     merge_button |-> "normal", split_button |-> "normal",
     threads |-> <<>>, after |-> <<>>, touched |-> {}]

\* del s[i], and the swap of two entries.
RemoveAt(s, S) == SelectSeq([k \in DOMAIN s |-> <<k, s[k]>>], LAMBDA e : e[1] \notin S)
Without(s, S) == [k \in DOMAIN RemoveAt(s, S) |-> RemoveAt(s, S)[k][2]]
Swap(s, i, j) == [s EXCEPT ![i] = s[j], ![j] = s[i]]

\* The progress bar or the progress label configured by the given thread.
Touch(g, thread) == [g EXCEPT !.touched = @ \cup {thread}]

\* A worker thread as threading.Thread(target=..._thread) starts it.  asked
\* is what the lists held at the click: the files in order, each with its
\* range.
NewThread(g, kind) ==
    [kind |-> kind, pc |-> "start", file_paths |-> <<>>, i |-> 0, added |-> <<>>,
     outcome |-> "", detached |-> FALSE, src |-> <<>>,
     asked |-> IF kind # "merge" THEN <<>>
               ELSE [k \in DOMAIN g.files |->
                       <<g.files[k],
                         IF g.files[k] \in DOMAIN g.page_ranges
                         THEN g.page_ranges[g.files[k]] ELSE RangeAll>>]]

\* A thread that has ended.
EndedThread(kind) ==
    [kind |-> kind, pc |-> "done", file_paths |-> <<>>, i |-> 0, added |-> <<>>,
     outcome |-> "", detached |-> FALSE, src |-> <<>>, asked |-> <<>>]

\* The list merge_pdfs iterates: gui.py passes self.pdf_files itself,
\* gui_enhanced the list file_paths its thread built.
input_files_of(g, t) == IF g.app = "gui" THEN g.files ELSE t.file_paths

\* update_progress, called by the core operation on the thread that runs it.
gui_update_progress(g, thread) == Touch(g, thread)

\* merge_pdfs / split_pdf / rotate_pages / add_watermark / compress_pdf up to
\* thread.start(): merge and split disable their button, all reset the bar.
start_thread(g, kind) ==
    [Touch(g, "ui") EXCEPT
        !.merge_button = IF kind = "merge" THEN "disabled" ELSE @,
        !.split_button = IF kind = "split" THEN "disabled" ELSE @,
        !.threads = Append(@, NewThread(g, kind))]

\* merge_thread, first step.  gui.py calls merge_pdfs on self.pdf_files,
\* which refuses fewer than two files; gui_enhanced starts the list
\* comprehension over self.merge_files.
merge_thread_start(g, w) ==
    [g EXCEPT !.threads[w] =
        IF g.app = "gui_enhanced" THEN [@ EXCEPT !.pc = "copy"]
        ELSE [@ EXCEPT !.pc = IF Len(g.files) < 2 THEN "finish" ELSE "validate",
                       !.outcome = IF Len(g.files) < 2 THEN "module_error" ELSE ""]]

\* The list the comprehension of gui_enhanced reads: merge_files itself, or
\* the list that was merge_files when the comprehension began.
copied_list(g, t) == IF t.detached THEN t.src ELSE g.files

\* file_paths = [f for f, _ in self.merge_files], one element at a time: the
\* next entry of the list as it is now; past its end merge_pdfs is called
\* on file_paths and refuses fewer than two files.
merge_thread_copy(g, w) ==
    LET t == g.threads[w]
        list == copied_list(g, t)
    IN  [g EXCEPT !.threads[w] =
            IF t.i < Len(list)
            THEN [t EXCEPT !.file_paths = Append(@, list[t.i + 1]), !.i = @ + 1]
            ELSE [t EXCEPT !.i = 0, !.detached = FALSE, !.src = <<>>,
                           !.pc = IF Len(t.file_paths) < 2 THEN "finish"
                                  ELSE "validate",
                           !.outcome = IF Len(t.file_paths) < 2 THEN "module_error"
                                       ELSE ""]]

\* merge_pdfs up to its try block: the validation loop with its progress
\* events and the event "Merging PDF files...".  It passes, a file is
\* refused with PDFMergerError, or the callback's Tk call raises on the
\* worker thread, which nothing here catches.
merge_thread_validate(g, w, how) ==
    [gui_update_progress(g, "worker") EXCEPT !.threads[w] =
        [@ EXCEPT !.pc = IF how = "ok" THEN "add" ELSE "finish",
                  !.outcome = IF how = "ok" THEN "" ELSE how]]

\* merge_pdfs, one round of the loop over input_files inside the try block:
\* the next file is read with the range page_ranges holds for it now; past
\* the end of the list the output is written.  Whatever raises in the round
\* (the reader on a file that has gone, the range, the callback, the write)
\* leaves merge_pdfs as PDFMergerError.
merge_thread_add(g, w, how) ==
    IF how # "ok"
    THEN [gui_update_progress(g, "worker") EXCEPT !.threads[w] =
             [@ EXCEPT !.pc = "finish", !.outcome = "module_error"]]
    ELSE IF g.threads[w].i >= Len(input_files_of(g, g.threads[w]))
    THEN [gui_update_progress(g, "worker") EXCEPT !.threads[w] =
             [@ EXCEPT !.pc = IF g.app = "gui_enhanced" THEN "compress" ELSE "finish",
                       !.outcome = IF g.app = "gui_enhanced" THEN "" ELSE "ok"]]
    ELSE [gui_update_progress(g, "worker") EXCEPT !.threads[w] =
             [@ EXCEPT !.i = @ + 1,
                       !.added = Append(@,
                           <<input_files_of(g, g.threads[w])[g.threads[w].i + 1],
                             IF input_files_of(g, g.threads[w])[g.threads[w].i + 1]
                                    \in DOMAIN g.page_ranges
                             THEN g.page_ranges[input_files_of(g, g.threads[w])
                                                    [g.threads[w].i + 1]]
                             ELSE RangeAll>>)]]

\* merge_thread of gui_enhanced after merge_pdfs returned: the box "Compress
\* output" is not checked; or reading it on the worker thread raises; or it
\* is checked and the label "Compressing..." is scheduled, after which
\* os.rename raises, compress_pdf raises PDFModifierError, or the output is
\* compressed and the temporary file removed.
merge_thread_compress(g, w, how) ==
    [(IF how = "compressed" THEN gui_update_progress(g, "worker") ELSE g) EXCEPT
        !.after = IF how \in {"unchecked", "get_raises"} THEN @
                  ELSE Append(@, "compressing"),
        !.threads[w] =
            [@ EXCEPT !.pc = "finish",
                      !.outcome = IF how \in {"unchecked", "compressed"} THEN "ok"
                                  ELSE IF how = "compress_raises" THEN "module_error"
                                  ELSE "exception"]]

\* split_thread, rotate_thread, watermark_thread, compress_thread: the core
\* call returns, raises the module's error, or another exception is raised
\* (reading a Tk variable, or the callback's Tk call, on the worker thread).
\* progressed tells whether the call got as far as a progress event, which
\* a call that returns always does.
other_thread_run(g, w, how, progressed) ==
    [(IF progressed \/ how = "ok" THEN gui_update_progress(g, "worker") ELSE g)
     EXCEPT !.threads[w] = [@ EXCEPT !.pc = "finish", !.outcome = how]]

\* The root.after calls of the end of a thread: after a return or a module
\* error the message box and the reset of bar and label, taken as one
\* callback; then, in the finally clause of merge_thread and split_thread,
\* the button.
scheduled(t) ==
    (IF t.outcome \in {"ok", "module_error"} THEN <<"reset">> ELSE <<>>)
    \o (IF t.kind = "merge" THEN <<"merge_button">>
        ELSE IF t.kind = "split" THEN <<"split_button">> ELSE <<>>)

\* A variant whose button is re-enabled by the except clause only.
thread_finish_NoFinally(g, w) ==
    [g EXCEPT !.after = @ \o (IF g.threads[w].outcome = "exception" THEN <<>>
                              ELSE scheduled(g.threads[w])),
              !.threads[w] = EndedThread(@.kind)]

thread_finish(g, w) ==
    [g EXCEPT !.after = @ \o scheduled(g.threads[w]),
              !.threads[w] = EndedThread(@.kind)]

\* The Tk thread runs the first scheduled callback.
run_after(g) ==
    [(IF Head(g.after) \in {"reset", "compressing"} THEN Touch(g, "ui") ELSE g) EXCEPT
        !.after = Tail(@),
        !.merge_button = IF Head(g.after) = "merge_button" THEN "normal" ELSE @,
        !.split_button = IF Head(g.after) = "split_button" THEN "normal" ELSE @]

\* The steps worker thread w can take next.
thread_steps(g, w) ==
    IF g.threads[w].pc = "done" THEN {}
    ELSE IF g.threads[w].pc = "start" /\ g.threads[w].kind = "merge"
    THEN {merge_thread_start(g, w)}
    ELSE IF g.threads[w].pc = "start"
    THEN {other_thread_run(g, w, how, progressed) :
            how \in {"ok", "module_error", "exception"}, progressed \in BOOLEAN}
    ELSE IF g.threads[w].pc = "copy" THEN {merge_thread_copy(g, w)}
    ELSE IF g.threads[w].pc = "validate"
    THEN {merge_thread_validate(g, w, how) :
            how \in {"ok", "module_error", "exception"}}
    ELSE IF g.threads[w].pc = "add"
    THEN {merge_thread_add(g, w, how) : how \in {"ok", "module_error"}}
    ELSE IF g.threads[w].pc = "compress"
    THEN {merge_thread_compress(g, w, how) :
            how \in {"unchecked", "get_raises", "rename_raises",
                     "compress_raises", "compressed"}}
    ELSE {thread_finish(g, w)}

\* Where the worker threads can have brought the application while the Tk
\* thread is between two statements of a handler: any number of their steps,
\* none included.
RECURSIVE threads_run(_)
threads_run(G) ==
    LET stepped == UNION {UNION {thread_steps(g, w) : w \in DOMAIN g.threads} : g \in G}
    IN  IF stepped \subseteq G THEN G ELSE threads_run(G \cup stepped)

\* add_files / add_file_to_merge: a path not yet listed is appended with its
\* basename as the new row.  gui_enhanced adds nothing (an error box is
\* shown) when get_pdf_info cannot read the file, and stores the range "all"
\* in page_ranges after the append, the workers running in between.  The
\* disk is no part of gui: whether the file can be read at this moment is an
\* input of the step.
add_file_to_merge(g, filepath, readable) ==
    IF \E k \in DOMAIN g.files : g.files[k] = filepath THEN {g}
    ELSE IF g.app = "gui"
    THEN {[g EXCEPT !.files = Append(@, filepath), !.rows = Append(@, filepath.name)]}
    ELSE IF ~readable THEN {g}
    ELSE {[h EXCEPT !.page_ranges = dict_set(@, filepath, RangeAll),
                    !.rows = Append(@, filepath.name)]
            : h \in threads_run({[g EXCEPT !.files = Append(@, filepath)]})}

\* gui.py remove_selected, one round of its loop: the row and the list entry
\* at index are deleted.
remove_selected_round(g, index) ==
    [g EXCEPT !.files = Without(@, {index}), !.rows = Without(@, {index})]

\* for index in reversed(selected): the rounds from the last selected index
\* to the first, the workers running between two rounds.
RECURSIVE remove_selected_loop(_, _)
remove_selected_loop(G, selected) ==
    IF selected = {SetMax(selected)}
    THEN {remove_selected_round(h, SetMax(selected)) : h \in G}
    ELSE remove_selected_loop(
             threads_run({remove_selected_round(h, SetMax(selected)) : h \in G}),
             selected \ {SetMax(selected)})

remove_selected(g, selected) == remove_selected_loop({g}, selected)

\* gui_enhanced remove_merge_files, one round of its loop, for a row that
\* shows filename: merge_files becomes a new list without the entries of
\* that file name, and the row leaves the tree, which then shows rows.  A
\* thread that is copying the old list goes on reading the old list, which
\* nothing changes any more.
remove_merge_round(g, filename, rows) ==
    [g EXCEPT !.files = SelectSeq(@, LAMBDA f : f.name # filename),
              !.rows = rows,
              !.threads = [w \in DOMAIN @ |->
                             IF @[w].pc = "copy" /\ ~@[w].detached
                             THEN [@[w] EXCEPT !.detached = TRUE, !.src = g.files]
                             ELSE @[w]]]

\* for item in selection: the rounds in the order of the tree, the workers
\* running between two rounds.  rows is the tree when the handler began,
\* left the selected rows still to remove.
RECURSIVE remove_merge_loop(_, _, _, _)
remove_merge_loop(G, rows, selection, left) ==
    IF left = {SetMin(left)}
    THEN {remove_merge_round(h, rows[SetMin(left)], Without(rows, selection)) : h \in G}
    ELSE remove_merge_loop(
             threads_run({remove_merge_round(h, rows[SetMin(left)],
                              Without(rows, (selection \ left) \cup {SetMin(left)}))
                            : h \in G}),
             rows, selection, left \ {SetMin(left)})

remove_merge_files(g, selection) == remove_merge_loop({g}, g.rows, selection, selection)

\* clear_all / clear_merge_files: both lists are emptied in place.
\* gui_enhanced clears merge_files, then page_ranges and the tree, the
\* workers running after the first.
clear_merge_files(g) ==
    IF g.app = "gui"
    THEN {[g EXCEPT !.files = <<>>, !.rows = <<>>, !.page_ranges = <<>>]}
    ELSE {[h EXCEPT !.rows = <<>>, !.page_ranges = <<>>]
            : h \in threads_run({[g EXCEPT !.files = <<>>]})}

\* files[i], files[j] = files[j], files[i]: both entries are read, then
\* files[i] is stored and then files[j], the workers running between the two
\* stores.
swap_entries(g, i, j) ==
    {[h EXCEPT !.files[j] = g.files[i]]
       : h \in threads_run({[g EXCEPT !.files[i] = g.files[j]]})}

\* move_up / move_merge_up of the row at index (counted from 1): the row
\* moves and files[index], files[index - 1] are swapped; the swap of
\* gui_enhanced raises, storing nothing, when merge_files is shorter than
\* the tree.
move_merge_up(g, index) ==
    IF index = 1 THEN {g}
    ELSE IF index > Len(g.files) THEN {[g EXCEPT !.rows = Swap(@, index, index - 1)]}
    ELSE swap_entries([g EXCEPT !.rows = Swap(@, index, index - 1)], index, index - 1)

\* move_down / move_merge_down, guarded by the length of the file list:
\* files[index], files[index + 1] are swapped.
move_merge_down(g, index) ==
    IF index >= Len(g.files) THEN {g}
    ELSE swap_entries([g EXCEPT !.rows = Swap(@, index, index + 1)], index, index + 1)

\* set_page_range: the range of the first entry with the row's file name,
\* in one store.
set_page_range(g, index, new_range) ==
    IF \A k \in DOMAIN g.files : g.files[k].name # g.rows[index] THEN g
    ELSE [g EXCEPT !.page_ranges =
              dict_set(@, g.files[SetMin({k \in DOMAIN g.files :
                                            g.files[k].name = g.rows[index]})],
                       new_range)]

coreVars == <<pc, op, args, range_str, total_pages, result, fs, dirs, writer,
              progress_callback, callback_raises, trace>>

\* The application after __init__.  The GUI steps do not read fs: what the
\* disk holds when a step looks at it is an input of that step.
InitGui ==
    /\ pc = "ready"
    /\ op = "none"
    /\ args = <<>>
    /\ range_str = <<>>
    /\ total_pages = 0
    /\ result = NoResult
    /\ fs = <<>>
    /\ dirs = {}
    /\ writer = NoWriter
    /\ progress_callback = TRUE
    /\ callback_raises = {}
    /\ trace = <<>>
    /\ gui \in {NewGui("gui"), NewGui("gui_enhanced")}

\* The file dialog, while the list shows fewer than MaxRows rows.
AddFiles ==
    /\ Len(gui.rows) < MaxRows
    /\ \E filepath \in GuiPaths, readable \in BOOLEAN :
          gui' \in add_file_to_merge(gui, filepath, readable)
    /\ UNCHANGED coreVars

RemoveSelected ==
    /\ \E selected \in SUBSET DOMAIN gui.rows :
          /\ selected # {}
          /\ gui' \in (IF gui.app = "gui" THEN remove_selected(gui, selected)
                        ELSE remove_merge_files(gui, selected))
    /\ UNCHANGED coreVars

ClearAll ==
    /\ gui.files # <<>>
    /\ gui' \in clear_merge_files(gui)
    /\ UNCHANGED coreVars

MoveUp ==
    /\ \E index \in DOMAIN gui.rows : gui' \in move_merge_up(gui, index)
    /\ UNCHANGED coreVars

MoveDown ==
    /\ \E index \in DOMAIN gui.rows : gui' \in move_merge_down(gui, index)
    /\ UNCHANGED coreVars

SetPageRange ==
    /\ gui.app = "gui_enhanced"
    /\ \E index \in DOMAIN gui.rows, new_range \in GuiRanges :
          gui' = set_page_range(gui, index, new_range)
    /\ UNCHANGED coreVars

\* The Merge button, which a disabled button does not deliver.
MergePdfs ==
    /\ gui.merge_button = "normal"
    /\ Len(gui.files) >= 2
    /\ Len(gui.threads) < MaxWorkers
    /\ gui' = start_thread(gui, "merge")
    /\ UNCHANGED coreVars

SplitPdf ==
    /\ gui.app = "gui_enhanced"
    /\ gui.split_button = "normal"
    /\ Len(gui.threads) < MaxWorkers
    /\ gui' = start_thread(gui, "split")
    /\ UNCHANGED coreVars

\* The Rotate, Watermark and Compress buttons of the Modify tab.
ModifyPdf ==
    /\ gui.app = "gui_enhanced"
    /\ Len(gui.threads) < MaxWorkers
    /\ gui' = start_thread(gui, "modify")
    /\ UNCHANGED coreVars

RunAfter ==
    /\ gui.after # <<>>
    /\ gui' = run_after(gui)
    /\ UNCHANGED coreVars

\* One step of worker thread w.
ThreadStep(w) ==
    /\ w \in DOMAIN gui.threads
    /\ gui' \in thread_steps(gui, w)
    /\ UNCHANGED coreVars

WorkerThread == \E w \in 1..MaxWorkers : ThreadStep(w)

\* The merge tab: the list is edited while merge threads run.
NextGuiMerge ==
    \/ AddFiles
    \/ RemoveSelected
    \/ ClearAll
    \/ MoveUp
    \/ MoveDown
    \/ SetPageRange
    \/ MergePdfs
    \/ RunAfter
    \/ WorkerThread

SpecGuiMerge == InitGui /\ [][NextGuiMerge]_vars

\* The buttons of all tabs, with files added to the list.
NextGui ==
    \/ AddFiles
    \/ MergePdfs
    \/ SplitPdf
    \/ ModifyPdf
    \/ RunAfter
    \/ WorkerThread

SpecGui == InitGui /\ [][NextGui]_vars

\* The Tk main loop runs every scheduled callback, and every thread runs on.
SpecGuiFair ==
    /\ SpecGui
    /\ WF_vars(RunAfter)
    /\ \A w \in 1..MaxWorkers : WF_vars(ThreadStep(w))


\* C22: in both GUIs every progress update that configures the progress bar
\* or the progress label runs on the Tk thread; no worker thread configures
\* a widget.
C22_ProgressOnUiThread ==
    gui.app # "none" => gui.touched \subseteq {"ui"}

\* C23: a merge that succeeded merged exactly the files, in the order and
\* with the page ranges, that the list held when its worker was started.
C23_MergesWhatWasListed ==
    gui.app # "none" =>
        \A w \in DOMAIN gui.threads :
            (/\ gui.threads[w].kind = "merge"
             /\ gui.threads[w].pc = "finish"
             /\ gui.threads[w].outcome = "ok")
            => gui.threads[w].added = gui.threads[w].asked

\* C24: in gui_enhanced at most one worker thread runs at any time.
C24_AtMostOneWorker ==
    gui.app = "gui_enhanced" =>
        Cardinality({w \in DOMAIN gui.threads : gui.threads[w].pc # "done"}) <= 1

\* C25: in both GUIs the displayed list and the internal list have the same
\* length, row i shows the file name of entry i, and no path occurs twice.
C25_RowsMatchFiles ==
    gui.app # "none" =>
        /\ Len(gui.rows) = Len(gui.files)
        /\ \A i \in DOMAIN gui.files :
              i \in DOMAIN gui.rows /\ gui.rows[i] = gui.files[i].name
        /\ \A i, j \in DOMAIN gui.files : gui.files[i] = gui.files[j] => i = j


\* The button a thread of the given kind keeps disabled.
ButtonOf(kind) == IF kind = "merge" THEN gui.merge_button ELSE gui.split_button

\* C26: the merge button, and the split button of gui_enhanced, is disabled
\* from the click that starts its worker for as long as the worker runs, and
\* however the worker ends (return, module error, other exception) the Tk
\* thread eventually enables the button again.
C26_ButtonReenabled ==
    /\ [](gui.app # "none" =>
            \A w \in DOMAIN gui.threads :
                (gui.threads[w].kind \in {"merge", "split"}
                    /\ gui.threads[w].pc # "done")
                => ButtonOf(gui.threads[w].kind) = "disabled")
    /\ (gui.app # "none" /\ gui.merge_button = "disabled")
          ~> (gui.merge_button = "normal")
    /\ (gui.app # "none" /\ gui.split_button = "disabled")
          ~> (gui.split_button = "normal")

\* A merge thread and a split thread have ended and both buttons are enabled
\* again.
C26_Witness ==
    /\ gui.app = "gui_enhanced"
    /\ \E w \in DOMAIN gui.threads :
          gui.threads[w].kind = "merge" /\ gui.threads[w].pc = "done"
    /\ \E w \in DOMAIN gui.threads :
          gui.threads[w].kind = "split" /\ gui.threads[w].pc = "done"
    /\ gui.merge_button = "normal"
    /\ gui.split_button = "normal"


\* The merge step of the handler returned.
MergeStepSucceeded(tr) ==
    \E k \in DOMAIN tr : tr[k].ev = "returned" /\ tr[k].tag = "PDFMerger.merge_pdfs"

\* C27: a merge with --compress whose merge step succeeded ends with a PDF
\* at the output path and with no '<output>.tmp' file, also when the
\* compression failed.
C27_CompressedMergeKeepsOutput ==
    (/\ pc = "done"
     /\ op = "cli.merge_command"
     /\ args.compress
     /\ MergeStepSucceeded(trace))
    => /\ Readable(fs, args.output)
       /\ temp_file(args.output) \notin DOMAIN fs


\* C28: split_command given --pages-per-file, whatever the integer, runs the
\* split by page count and no other mode, so that a value below 1 is refused
\* by split_by_page_count and the command returns 1.
C28_PagesPerFileRunsCountMode ==
    (/\ pc = "done"
     /\ op = "cli.split_command"
     /\ args.pages_per_file.given)
    => /\ Len(CoreCalls(trace)) = 1
       /\ CoreCalls(trace)[1].tag = "PDFSplitter.split_by_page_count"
       /\ (args.pages_per_file.val < 1) =>
             (result.value = 1 /\ Len(CoreRaised(trace)) = 1)


\* The six operations whose events count one sequence of steps.
SteppedOps ==
    {"PDFSplitter.extract_pages", "PDFSplitter.split_by_page_count",
     "PDFSplitter.split_by_ranges", "PDFModifier.rotate_pages",
     "PDFModifier.add_text_watermark", "PDFModifier.compress_pdf"}

\* C29: every progress event of a core operation has 0 <= current <= total;
\* within one call of extract_pages, split_by_page_count, split_by_ranges,
\* rotate_pages, add_text_watermark or compress_pdf the current values
\* start at 0 and never decrease, and the last event of a successful call
\* has current = total.
C29_ProgressWithinTotal ==
    LET ev == ProgressEvents(trace)
    IN /\ \A k \in DOMAIN ev : 0 <= ev[k].current /\ ev[k].current <= ev[k].total
       /\ (pc = "done" /\ op \in SteppedOps /\ ev # <<>>) =>
             /\ ev[1].current = 0
             /\ \A k \in 1..(Len(ev) - 1) : ev[k].current <= ev[k + 1].current
             /\ result.ok => ev[Len(ev)].current = ev[Len(ev)].total

\* A split by ranges into two files that delivered four events.
C29_Witness ==
    /\ pc = "done"
    /\ op = "PDFSplitter.split_by_ranges"
    /\ result.ok
    /\ Len(ProgressEvents(trace)) = 4
    /\ ProgressEvents(trace)[3].current = 2

=============================================================================
